---- MODULE Spec2Model ----
(***************************************************************************)
(* Journey search of CC6909-Ayatori-V2: the connection scan                *)
(* (ConnectionScanAlgorithm.py), the transfer registry                     *)
(* (TransferConnection.py) and the transfer discovery of GTFSData.py.      *)
(*                                                                         *)
(* Units.  Times are integer seconds (datetime/timedelta arithmetic is     *)
(* exact).  Distances are integer metres, so the source's 0.5 km is 500;   *)
(* every distance used is a multiple of 25 m, for which the walking time   *)
(* distance / 5 km/h * 3600 is a whole number of seconds.                  *)
(* Stop and route ids are strings, as in the source.                       *)
(***************************************************************************)
EXTENDS Integers, Sequences, FiniteSets, TLC

VARIABLES
    route_stops,        \* gtfs.route_stops: insertion-ordered dict, as a sequence of [route_id, stops]
    stop_pos,           \* scheduler.stops with their coordinates: stop id -> position (m) on one meridian
    transfer_manager,   \* self.transfer_manager: <<>> is None, <<tm>> a TransferManager
    max_transfers,      \* self.max_transfers
    pc,                 \* "idle" | "scan" | "done": position of _connection_scan
    origin_stop, destination_stop, start_time,
    origin_walk_dist, dest_walk_dist, actual_departure,
    earliest_arrival,   \* dict stop -> time
    in_connection,      \* dict stop -> <<from_stop, route_id, dep_time, arr_time>>
    transfers_used,     \* dict stop -> int
    queue,              \* the heap, as the set of its entries <<arrival_time, stop_id, from_route, num_transfers>>
    visited_routes,     \* set of <<stop, route>>
    journeys_found,     \* list of Journey
    last_pop,           \* the entry taken by the latest heappop (<<>> before the first)
    baseline,           \* result of the run with max_transfers = K kept while K+1 runs (<<>>: no such run)
    all_journeys,       \* find_journey: the journeys collected from the scans
    num_alternatives,   \* find_journey: the number of alternatives asked for
    unique_journeys,    \* find_journey: the sorted journeys after _filter_similar_journeys
    returned_journeys,  \* find_journey: the list returned
    max_walking_km,     \* self.max_walking_km, in metres
    origin_coords, destination_coords,  \* find_journey: the two locations, as positions (m)
    origin_stops,       \* find_journey: get_nearby_stops around the origin
    destination_stops,  \* find_journey: get_nearby_stops around the destination
    scans,              \* find_journey: the _connection_scan calls made, <<origin_stop, dest_stop, start>>
    raised,             \* the exception that ended the call ("" for none)
    nearby,             \* the latest get_nearby_stops call: <<>> or <<[location, margin_km, max_stops, result]>>
    max_distance_km,    \* compute_all_transfers: the discovery radius, in metres
    added,              \* the add_transfer calls made on the manager, in order
    trips,              \* scheduler.trips: the feed get_gtfs_data reads
    planned,            \* the latest planner call: <<>> or <<[planner, journey]>>, journey <<>> for None
    runs,               \* the _connection_scan activations in progress on the engine, each with its locals
    built               \* the object a constructor was called for: <<>> or <<[class, config, constructed, query]>>

vars == <<route_stops, stop_pos, transfer_manager, max_transfers, pc,
          origin_stop, destination_stop, start_time,
          origin_walk_dist, dest_walk_dist, actual_departure,
          earliest_arrival, in_connection, transfers_used, queue,
          visited_routes, journeys_found, last_pop, baseline,
          all_journeys, num_alternatives, unique_journeys, returned_journeys,
          max_walking_km, origin_coords, destination_coords, origin_stops,
          destination_stops, scans, raised, nearby, max_distance_km, added, trips, planned, runs, built>>

rank_vars == <<all_journeys, num_alternatives, unique_journeys, returned_journeys>>
world_vars == <<route_stops, stop_pos, transfer_manager, max_walking_km>>
fj_vars == <<origin_coords, destination_coords, origin_stops, destination_stops,
             scans, raised>>
lib_vars == <<nearby, max_distance_km, added, trips, planned, runs, built>>
query_vars == <<origin_stop, destination_stop, start_time,
                origin_walk_dist, dest_walk_dist, actual_departure>>
scratch_vars == <<earliest_arrival, in_connection, transfers_used, queue,
                  visited_routes, journeys_found, last_pop>>

----------------------------------------------------------------------------
(* Bounds of the model *)

\* number of routes of a generated timetable
MaxRoutes == 2
\* max_transfers ranges over 0..MaxTransfersBound
MaxTransfersBound == 2

(* Program constants *)

\* transfer_time = 120  (2 minutos minimo)
transfer_time == 120
\* timedelta(minutes=2 * sequence_diff), in seconds per sequence step
SecondsPerSequenceStep == 120
\* if len(journeys_found) >= 3: break
MaxJourneysPerScan == 3
\* walking_speed_kmh: float = 5.0
walking_speed == 5
\* max_walking_distance_km: float = 1.0  (in metres)
DefaultMaxWalkingDistance == 1000
\* max_stops=10, the default of get_nearby_stops
DefaultMaxStops == 10
\* max_stops=50 in find_nearby_routes
NearbyRoutesMaxStops == 50
\* nearby_stops[:3] in compute_all_transfers
TopNearest == 3
\* if self.walking_distance_km > 0.5  (in metres)
ViableMaxDistance == 500
\* if self.walking_time_seconds > 600
ViableMaxWalkingTime == 600
\* min_transfer_time: int = 120
DefaultMinTransferTime == 120
\* max_waiting_time: int = 900
DefaultMaxWaitingTime == 900

NoRoute == "None"

----------------------------------------------------------------------------
(* Dictionaries *)

Get(d, k, default) == IF k \in DOMAIN d THEN d[k] ELSE default

Put(d, k, v) == [x \in DOMAIN d \cup {k} |-> IF x = k THEN v ELSE d[x]]

EmptyDict == [x \in {} |-> 0]

\* Python's str comparison on the stop ids used ("A" < "B" < ...)
StopOrder == <<"A", "B", "C", "D", "E">>

StopRank(s) == CHOOSE i \in 1..Len(StopOrder) : StopOrder[i] = s

----------------------------------------------------------------------------
(* TransferConnection.py *)

\* is_viable with the two limits exclusive
is_viable_exclusive(t) ==
    IF t.walking_distance_km >= ViableMaxDistance THEN FALSE
    ELSE IF t.walking_time_seconds >= ViableMaxWalkingTime THEN FALSE
    ELSE TRUE

\* TransferConnection.is_viable
is_viable(t) ==
    IF t.walking_distance_km > ViableMaxDistance THEN FALSE
    ELSE IF t.walking_time_seconds > ViableMaxWalkingTime THEN FALSE
    ELSE TRUE

\* TransferManager.__init__
NewTransferManager == [transfers |-> EmptyDict, transfers_by_destination |-> EmptyDict]

\* add_transfer assigning a new list where it should append
add_transfer_overwriting(tm, transfer) ==
    LET key == <<transfer.from_route_id, transfer.from_stop_id>>
        dst == transfer.to_route_id
    IN [transfers |-> Put(tm.transfers, key, <<transfer>>),
        transfers_by_destination |->
            Put(tm.transfers_by_destination, dst,
                Append(Get(tm.transfers_by_destination, dst, <<>>),
                       <<transfer.from_route_id, transfer.from_stop_id, transfer>>))]

\* TransferManager.add_transfer
add_transfer(tm, transfer) ==
    LET key == <<transfer.from_route_id, transfer.from_stop_id>>
        dst == transfer.to_route_id
    IN [transfers |-> Put(tm.transfers, key,
                          Append(Get(tm.transfers, key, <<>>), transfer)),
        transfers_by_destination |->
            Put(tm.transfers_by_destination, dst,
                Append(Get(tm.transfers_by_destination, dst, <<>>),
                       <<transfer.from_route_id, transfer.from_stop_id, transfer>>))]

\* TransferManager.get_transfers_from
get_transfers_from(tm, route_id, stop_id) == Get(tm.transfers, <<route_id, stop_id>>, <<>>)

\* TransferManager.get_transfers_to
get_transfers_to(tm, route_id) == Get(tm.transfers_by_destination, route_id, <<>>)

----------------------------------------------------------------------------
(* ConnectionScanAlgorithm.py: helpers of the scan *)

RouteIndex(rs, route_id) == {i \in 1..Len(rs) : rs[i].route_id = route_id}

StopsOf(rs, route_id) == rs[CHOOSE i \in RouteIndex(rs, route_id) : TRUE].stops

\* _get_routes_at_stop: the routes whose stops_dict holds stop_id, in dict order
_get_routes_at_stop(rs, stop_id) ==
    LET F[i \in 0..Len(rs)] ==
            IF i = 0 THEN <<>>
            ELSE IF stop_id \in DOMAIN rs[i].stops
                 THEN Append(F[i - 1], rs[i].route_id)
                 ELSE F[i - 1]
    IN F[Len(rs)]

\* _is_transfer_viable looking the transfers up under the route boarded
_is_transfer_viable_keyed_by_target(tmopt, from_route, stop_id, to_route) ==
    IF Len(tmopt) = 0 THEN TRUE
    ELSE LET transfers == get_transfers_from(tmopt[1], to_route, stop_id)
         IN \E i \in 1..Len(transfers) :
               transfers[i].to_route_id = to_route /\ is_viable(transfers[i])

\* _is_transfer_viable
_is_transfer_viable(tmopt, from_route, stop_id, to_route) ==
    IF Len(tmopt) = 0 THEN TRUE
    ELSE LET transfers == get_transfers_from(tmopt[1], from_route, stop_id)
         IN \E i \in 1..Len(transfers) :
                transfers[i].to_route_id = to_route /\ is_viable(transfers[i])

\* _get_next_stops_on_route: dict next stop -> estimated arrival time
_get_next_stops_on_route(rs, route_id, current_stop, current_time) ==
    IF RouteIndex(rs, route_id) = {} THEN EmptyDict
    ELSE LET stops == StopsOf(rs, route_id)
         IN IF current_stop \notin DOMAIN stops THEN EmptyDict
            ELSE LET current_sequence == stops[current_stop]
                 IN [s \in {x \in DOMAIN stops : stops[x] > current_sequence} |->
                        current_time
                        + SecondsPerSequenceStep * (stops[s] - current_sequence)]

----------------------------------------------------------------------------
(* ConnectionScanAlgorithm.py: _reconstruct_journey *)

\* (origin_walk_dist / self.walking_speed) * 3600, the distance in metres
WalkSeconds(dist) == (dist * 3600) \div (walking_speed * 1000)

\* the backward walk over in_connection, already reversed: the hops
\* <<from_stop, to_stop, route_id, dep_time, arr_time>> from `end` to current_stop
RECURSIVE PredecessorChain(_, _, _)
PredecessorChain(ic, origin, current_stop) ==
    IF current_stop = origin \/ current_stop \notin DOMAIN ic
    THEN [end |-> current_stop, path |-> <<>>]
    ELSE LET e == ic[current_stop]
             rest == PredecessorChain(ic, origin, e[1])
         IN [end |-> rest.end,
             path |-> Append(rest.path, <<e[1], current_stop, e[2], e[3], e[4]>>)]

WalkSegment(from, to, dist, start) ==
    [type |-> "walk", from |-> from, to |-> to, distance_km |-> dist,
     duration |-> WalkSeconds(dist), start_time |-> start,
     end_time |-> start + WalkSeconds(dist)]

TransferSegment(prev_route, route_id, from_stop) ==
    [type |-> "transfer", from_route |-> prev_route, to_route |-> route_id,
     at_stop |-> from_stop, duration |-> 2 * 60]

\* TransitSegment with the two stops of the hop exchanged
TransitSegment_stops_exchanged(hop) ==
    [type |-> "transit", route_id |-> hop[3], from_stop |-> hop[2],
     to_stop |-> hop[1], departure_time |-> hop[4], arrival_time |-> hop[5],
     duration |-> hop[5] - hop[4]]

TransitSegment(hop) ==
    [type |-> "transit", route_id |-> hop[3], from_stop |-> hop[1],
     to_stop |-> hop[2], departure_time |-> hop[4], arrival_time |-> hop[5],
     duration |-> hop[5] - hop[4]]

\* the loop "for from_stop, to_stop, route_id, dep_time, arr_time in path"
TransitSegments(path) ==
    LET F[i \in 0..Len(path)] ==
            IF i = 0 THEN <<>>
            ELSE IF i > 1 /\ path[i - 1][3] # path[i][3]
                 THEN F[i - 1]
                      \o <<TransferSegment(path[i - 1][3], path[i][3], path[i][1]),
                           TransitSegment(path[i])>>
                 ELSE Append(F[i - 1], TransitSegment(path[i]))
    IN F[Len(path)]

CountTransfers(path) ==
    Cardinality({i \in 2..Len(path) : path[i - 1][3] # path[i][3]})

\* _reconstruct_journey: <<>> is None, <<journey>> a Journey
_reconstruct_journey(origin, destination, ic, owd, dwd, departure) ==
    IF destination \notin DOMAIN ic THEN <<>>
    ELSE LET chain == PredecessorChain(ic, origin, destination)
             path == chain.path
         IN IF Len(path) = 0 \/ chain.end # origin THEN <<>>
            ELSE LET first == WalkSegment("origin", origin, owd, departure)
                     mid == TransitSegments(path)
                     last_segment_end == mid[Len(mid)].arrival_time
                     final == WalkSegment(destination, "destination", dwd,
                                          last_segment_end)
                     segments == <<first>> \o mid \o <<final>>
                 IN << [segments |-> segments,
                        total_duration |-> final.end_time - first.start_time,
                        departure_time |-> departure,
                        arrival_time |-> final.end_time,
                        number_of_transfers |-> CountTransfers(path),
                        total_walking_distance |-> owd + dwd] >>

----------------------------------------------------------------------------
(* ConnectionScanAlgorithm.py: _connection_scan *)

\* tuple order of the heap entries; arrival_time and stop_id decide, since no two
\* entries of one stop carry the same time
EntryLess(a, b) ==
    \/ a[1] < b[1]
    \/ a[1] = b[1] /\ StopRank(a[2]) < StopRank(b[2])

\* heapq.heappop: the least entry
HeapMin(q) == CHOOSE e \in q : \A o \in q \ {e} : EntryLess(e, o)

\* the body of the route loop keeping the predecessor entry a stop already has
ExploreRoute_keeps_predecessor(st, rs, tmopt, current_stop, current_route, num_transfers, route_id) ==
    IF <<current_stop, route_id>> \in st.vr THEN st
    ELSE LET vr1 == st.vr \cup {<<current_stop, route_id>>}
             needs_transfer == current_route # NoRoute /\ current_route # route_id
         IN IF needs_transfer
               /\ ~_is_transfer_viable(tmopt, current_route, current_stop, route_id)
            THEN [st EXCEPT !.vr = vr1]
            ELSE LET at1 == IF needs_transfer THEN st.at + transfer_time ELSE st.at
                     next_stops == _get_next_stops_on_route(rs, route_id, current_stop, at1)
                     better == {s \in DOMAIN next_stops :
                                   s \notin DOMAIN st.ea \/ next_stops[s] < st.ea[s]}
                     used == num_transfers + (IF needs_transfer THEN 1 ELSE 0)
                 IN [ea |-> [s \in DOMAIN st.ea \cup better |->
                                IF s \in better THEN next_stops[s] ELSE st.ea[s]],
                     ic |-> [s \in DOMAIN st.ic \cup better |->
                                IF s \in DOMAIN st.ic THEN st.ic[s]
                                ELSE <<current_stop, route_id, at1, next_stops[s]>>],
                     tu |-> [s \in DOMAIN st.tu \cup better |->
                                IF s \in better THEN used ELSE st.tu[s]],
                     q  |-> st.q \cup {<<next_stops[s], s, route_id, used>> : s \in better},
                     vr |-> vr1,
                     at |-> at1]

\* one pass of the body of "for route_id in routes_at_stop" on the loop's state
\* st = [ea, ic, tu, q, vr, at]; at is the loop's (reassigned) arrival_time
ExploreRoute(st, rs, tmopt, current_stop, current_route, num_transfers, route_id) ==
    IF <<current_stop, route_id>> \in st.vr THEN st
    ELSE LET vr1 == st.vr \cup {<<current_stop, route_id>>}
             needs_transfer == current_route # NoRoute /\ current_route # route_id
         IN IF needs_transfer
               /\ ~_is_transfer_viable(tmopt, current_route, current_stop, route_id)
            THEN [st EXCEPT !.vr = vr1]
            ELSE LET at1 == IF needs_transfer THEN st.at + transfer_time ELSE st.at
                     next_stops == _get_next_stops_on_route(rs, route_id, current_stop, at1)
                     better == {s \in DOMAIN next_stops :
                                   s \notin DOMAIN st.ea \/ next_stops[s] < st.ea[s]}
                     used == num_transfers + (IF needs_transfer THEN 1 ELSE 0)
                 IN [ea |-> [s \in DOMAIN st.ea \cup better |->
                                IF s \in better THEN next_stops[s] ELSE st.ea[s]],
                     ic |-> [s \in DOMAIN st.ic \cup better |->
                                IF s \in better
                                THEN <<current_stop, route_id, at1, next_stops[s]>>
                                ELSE st.ic[s]],
                     tu |-> [s \in DOMAIN st.tu \cup better |->
                                IF s \in better THEN used ELSE st.tu[s]],
                     q  |-> st.q \cup {<<next_stops[s], s, route_id, used>> : s \in better},
                     vr |-> vr1,
                     at |-> at1]

\* the whole "for route_id in routes_at_stop" loop
ExploreRoutes(st, rs, tmopt, current_stop, current_route, num_transfers) ==
    LET routes_at_stop == _get_routes_at_stop(rs, current_stop)
        F[i \in 0..Len(routes_at_stop)] ==
            IF i = 0 THEN st
            ELSE CHOOSE n \in {ExploreRoute(x, rs, tmopt, current_stop, current_route,
                                            num_transfers, routes_at_stop[i]) :
                                   x \in {F[i - 1]}} : TRUE
    IN F[Len(routes_at_stop)]

\* the calls _get_next_stops_on_route(route_id, current_stop, arrival_time) the
\* route loop makes for a popped entry, in order: <<route_id, arrival_time>>
BoardingTimes(vr, rs, tmopt, current_stop, current_route, popped_time) ==
    LET routes_at_stop == _get_routes_at_stop(rs, current_stop)
        F[i \in 0..Len(routes_at_stop)] ==
            IF i = 0 THEN [at |-> popped_time, calls |-> <<>>]
            ELSE LET route_id == routes_at_stop[i]
                     prev == F[i - 1]
                     needs_transfer == current_route # NoRoute /\ current_route # route_id
                 IN IF <<current_stop, route_id>> \in vr THEN prev
                    ELSE IF needs_transfer
                            /\ ~_is_transfer_viable(tmopt, current_route, current_stop,
                                                    route_id)
                    THEN prev
                    ELSE IF needs_transfer
                    THEN [at |-> prev.at + transfer_time,
                          calls |-> Append(prev.calls, <<route_id, prev.at + transfer_time>>)]
                    ELSE [at |-> prev.at, calls |-> Append(prev.calls, <<route_id, prev.at>>)]
    IN F[Len(routes_at_stop)].calls

\* the locals of a run at line 196, before the first pass of "while queue";
\* stop says that the loop was left by "break"
ScanLocals(origin, start) ==
    [ea |-> (origin :> start), ic |-> EmptyDict, tu |-> (origin :> 0),
     q |-> {<<start, origin, NoRoute, 0>>}, vr |-> {}, jf |-> <<>>, stop |-> FALSE]

\* one pass of the body of "while queue" on the locals st of a run
ScanPass(st, rs, tmopt, K, origin, destination, owd, dwd, departure) ==
    LET e == HeapMin(st.q)
        Explored(x) == [ea |-> x.ea, ic |-> x.ic, tu |-> x.tu, q |-> x.q, vr |-> x.vr,
                        jf |-> st.jf, stop |-> FALSE]
        Found(journey) ==
            [st EXCEPT !.q = st.q \ {e}, !.jf = st.jf \o journey,
                       !.stop = Len(journey) > 0
                                /\ Len(st.jf \o journey) >= MaxJourneysPerScan]
    IN IF e[2] = destination
       THEN CHOOSE n \in {Found(j) : j \in {_reconstruct_journey(origin, destination, st.ic,
                                                                 owd, dwd, departure)}} : TRUE
       ELSE IF e[4] > K THEN [st EXCEPT !.q = st.q \ {e}]
       ELSE CHOOSE n \in
                {Explored(x) :
                    x \in {ExploreRoutes([ea |-> st.ea, ic |-> st.ic, tu |-> st.tu,
                                          q |-> st.q \ {e}, vr |-> st.vr, at |-> e[1]],
                                         rs, tmopt, e[2], e[3], e[4])}} : TRUE

\* "while queue": the passes from the locals st until the queue is empty or the
\* loop is left; the value is journeys_found
RECURSIVE ScanLoop(_, _, _, _, _, _, _, _, _)
ScanLoop(st, rs, tmopt, K, origin, destination, owd, dwd, departure) ==
    IF st.q = {} \/ st.stop THEN st.jf
    ELSE CHOOSE found \in
             {ScanLoop(n, rs, tmopt, K, origin, destination, owd, dwd, departure) :
                 n \in {ScanPass(st, rs, tmopt, K, origin, destination, owd, dwd,
                                 departure)}} : TRUE

\* _connection_scan run from its first line to its return: journeys_found
_connection_scan(rs, tmopt, K, origin, destination, start, owd, dwd, departure) ==
    ScanLoop(ScanLocals(origin, start), rs, tmopt, K, origin, destination, owd, dwd,
             departure)

----------------------------------------------------------------------------
(* GTFSData.py: proximity and transfer discovery *)

Abs(x) == IF x < 0 THEN -x ELSE x

Min(a, b) == IF a < b THEN a ELSE b

Max(a, b) == IF a > b THEN a ELSE b

\* haversine, for stops on one meridian: the great-circle distance is the
\* absolute difference of the positions (m)
haversine(p1, p2) == Abs(p1 - p2)

\* the sort with reverse=True: farthest first
SortByDistance_farthest_first(list) ==
    LET Sorted(l) ==
            LET Before(i, j) == \/ l[i][2] > l[j][2]
                                \/ l[i][2] = l[j][2] /\ i < j
                Place(j) == Cardinality({i \in 1..Len(l) : Before(i, j)}) + 1
            IN [k \in 1..Len(l) |-> l[CHOOSE j \in 1..Len(l) : Place(j) = k]]
    IN CHOOSE sorted \in {Sorted(l) : l \in {list}} : TRUE

\* list.sort(key=lambda x: x[1]): stable, ascending by distance
SortByDistance(list) ==
    LET Sorted(l) ==
            LET Before(i, j) == \/ l[i][2] < l[j][2]
                                \/ l[i][2] = l[j][2] /\ i < j
                Place(j) == Cardinality({i \in 1..Len(l) : Before(i, j)}) + 1
            IN [k \in 1..Len(l) |-> l[CHOOSE j \in 1..Len(l) : Place(j) = k]]
    IN CHOOSE sorted \in {Sorted(l) : l \in {list}} : TRUE

\* the stops of a dense district: a hub H, 49 stops around it, and Z
DenseStops ==
    <<"S01", "S02", "S03", "S04", "S05", "S06", "S07", "S08", "S09", "S10",
      "S11", "S12", "S13", "S14", "S15", "S16", "S17", "S18", "S19", "S20",
      "S21", "S22", "S23", "S24", "S25", "S26", "S27", "S28", "S29", "S30",
      "S31", "S32", "S33", "S34", "S35", "S36", "S37", "S38", "S39", "S40",
      "S41", "S42", "S43", "S44", "S45", "S46", "S47", "S48", "S49">>

\* scheduler.stops, in feed order
FeedOrder == StopOrder \o <<"H">> \o DenseStops \o <<"Z">>

FeedRank(s) == CHOOSE i \in 1..Len(FeedOrder) : FeedOrder[i] = s

FeedStops(pos) == SelectSeq(FeedOrder, LAMBDA s : s \in DOMAIN pos)

\* nearby_stops[:max_stops], max_stops a count
FirstOf(list, max_stops) ==
    CHOOSE cut \in {SubSeq(l, 1, Min(max_stops, Len(l))) : l \in {list}} : TRUE

\* get_nearby_stops without the test of the margin
get_nearby_stops_any_distance(pos, location, margin, max_stops) ==
    LET Measured(feed) ==
            [i \in 1..Len(feed) |-> <<feed[i], haversine(location, pos[feed[i]])>>]
        all == CHOOSE m \in {Measured(feed) : feed \in {FeedStops(pos)}} : TRUE
    IN FirstOf(SortByDistance(all), max_stops)

\* get_nearby_stops: [(stop_id, distance)] within margin, nearest first, at most max_stops
get_nearby_stops(pos, location, margin, max_stops) ==
    LET Measured(feed) ==
            [i \in 1..Len(feed) |-> <<feed[i], haversine(location, pos[feed[i]])>>]
        measured == CHOOSE m \in {Measured(feed) : feed \in {FeedStops(pos)}} : TRUE
        within == SelectSeq(measured, LAMBDA e : e[2] <= margin)
    IN FirstOf(SortByDistance(within), max_stops)

\* get_stop_coords: <<>> is None
get_stop_coords(rs, pos, stop_id) ==
    IF \E i \in 1..Len(rs) : stop_id \in DOMAIN rs[i].stops THEN <<pos[stop_id]>> ELSE <<>>

\* find_nearby_routes: ordered dict route_id -> [(nearby_stop_id, distance)].
\* The loops append each nearby stop other than stop_id to the list of every
\* route serving it, so a route's list keeps the order of nearby_stops and the
\* routes are keyed in the order of their first append.
find_nearby_routes(rs, pos, stop_id, margin) ==
    LET stop_coords == get_stop_coords(rs, pos, stop_id)
        Grouped(nearby_stops) ==
            LET Hit(i, k) == /\ nearby_stops[k][1] # stop_id
                             /\ nearby_stops[k][1] \in DOMAIN rs[i].stops
                Appended(i) == SelectSeq(nearby_stops,
                                         LAMBDA near : near[1] # stop_id
                                                       /\ near[1] \in DOMAIN rs[i].stops)
                present == {i \in 1..Len(rs) : \E k \in 1..Len(nearby_stops) : Hit(i, k)}
                First(i) == CHOOSE k \in 1..Len(nearby_stops) :
                                Hit(i, k) /\ \A m \in 1..(k - 1) : ~Hit(i, m)
                Earlier(i, j) == \/ First(i) < First(j)
                                 \/ First(i) = First(j) /\ i < j
                Key(k) == CHOOSE i \in present :
                              Cardinality({j \in present : Earlier(j, i)}) = k - 1
            IN [k \in 1..Cardinality(present) |->
                    [route_id |-> rs[Key(k)].route_id,
                     stops |-> SortByDistance(Appended(Key(k)))]]
    IN IF Len(stop_coords) = 0 THEN <<>>
       ELSE CHOOSE nearby_routes \in
                {Grouped(n) : n \in {get_nearby_stops(pos, stop_coords[1], margin,
                                                      NearbyRoutesMaxStops)}} : TRUE

\* stops_dict.keys(): the stops of a route in order of their first visit
StopKeys(stops) ==
    LET Before(a, b) == \/ stops[a] < stops[b]
                        \/ stops[a] = stops[b] /\ FeedRank(a) < FeedRank(b)
    IN [i \in 1..Cardinality(DOMAIN stops) |->
            CHOOSE s \in DOMAIN stops :
                Cardinality({x \in DOMAIN stops : Before(x, s)}) = i - 1]

\* the TransferConnection built at GTFSData.py 1034-1056
DiscoveredTransfer(from_route_id, from_stop_id, to_route_id, near, max_waiting_minutes, walking_speed_kmh) ==
    LET distance == near[2]
        walking_time == (distance * 3600) \div (walking_speed_kmh * 1000)
    IN [from_route_id |-> from_route_id,
        to_route_id |-> to_route_id,
        from_stop_id |-> from_stop_id,
        to_stop_id |-> near[1],
        walking_distance_km |-> distance,
        walking_time_seconds |-> walking_time,
        min_transfer_time |-> Max(120, walking_time),
        max_waiting_time |-> max_waiting_minutes * 60,
        transfer_type |-> IF from_stop_id = near[1] THEN "same_stop"
                          ELSE IF distance < 50 THEN "nearby"
                          ELSE "walking"]

\* nearby_stops[:3] of one nearby route, each made a TransferConnection
TopTransfers(from_route_id, from_stop_id, nearby_route, max_waiting_minutes, walking_speed_kmh) ==
    LET Made(top) ==
            [j \in 1..Len(top) |->
                DiscoveredTransfer(from_route_id, from_stop_id, nearby_route.route_id,
                                   top[j], max_waiting_minutes, walking_speed_kmh)]
    IN CHOOSE made \in {Made(top) : top \in {FirstOf(nearby_route.stops, TopNearest)}} : TRUE

\* TransfersFrom without "if from_route_id == to_route_id: continue"
TransfersFrom_any_route(rs, pos, from_route_id, from_stop_id, max_distance, max_waiting_minutes, walking_speed_kmh) ==
    LET Made(nearby_routes) ==
            LET F[i \in 0..Len(nearby_routes)] ==
                    IF i = 0 THEN <<>>
                    ELSE F[i - 1] \o
                         TopTransfers(from_route_id, from_stop_id, nearby_routes[i],
                                      max_waiting_minutes, walking_speed_kmh)
            IN F[Len(nearby_routes)]
    IN CHOOSE made \in
           {Made(n) : n \in {find_nearby_routes(rs, pos, from_stop_id, max_distance)}} : TRUE

\* the transfers compute_all_transfers creates for one (from_route, from_stop), in order
TransfersFrom(rs, pos, from_route_id, from_stop_id, max_distance, max_waiting_minutes, walking_speed_kmh) ==
    LET Made(nearby_routes) ==
            LET F[i \in 0..Len(nearby_routes)] ==
                    IF i = 0 THEN <<>>
                    ELSE IF nearby_routes[i].route_id = from_route_id THEN F[i - 1]
                         ELSE F[i - 1] \o
                              TopTransfers(from_route_id, from_stop_id, nearby_routes[i],
                                           max_waiting_minutes, walking_speed_kmh)
            IN F[Len(nearby_routes)]
    IN CHOOSE made \in
           {Made(n) : n \in {find_nearby_routes(rs, pos, from_stop_id, max_distance)}} : TRUE

\* add_transfer applied to a list of transfers, in order
AddAll(tm, list) ==
    LET F[i \in 0..Len(list)] == IF i = 0 THEN tm ELSE add_transfer(F[i - 1], list[i])
    IN F[Len(list)]

\* compute_all_transfers
compute_all_transfers(rs, pos, max_distance, max_waiting_minutes, walking_speed_kmh) ==
    LET PerRoute(i) ==
            LET keys == StopKeys(rs[i].stops)
                G[j \in 0..Len(keys)] ==
                    IF j = 0 THEN <<>>
                    ELSE G[j - 1] \o TransfersFrom(rs, pos, rs[i].route_id, keys[j],
                                                   max_distance, max_waiting_minutes,
                                                   walking_speed_kmh)
            IN G[Len(keys)]
        F[i \in 0..Len(rs)] == IF i = 0 THEN <<>> ELSE F[i - 1] \o PerRoute(i)
    IN AddAll(NewTransferManager, F[Len(rs)])

----------------------------------------------------------------------------
(* The timetables, registries and queries the model runs on *)

RouteNames == <<"R1", "R2", "R3", "R4">>

GenStops == {"A", "B", "C"}

\* a route over two or three stops of GenStops, visited in sequence 1, 2(, 3)
Shapes ==
    {(a :> 1 @@ b :> 2) : <<a, b>> \in {p \in GenStops \X GenStops : p[1] # p[2]}}
    \cup {(p[1] :> 1 @@ p[2] :> 2 @@ p[3] :> 3) :
            p \in {t \in GenStops \X GenStops \X GenStops :
                     t[1] # t[2] /\ t[1] # t[3] /\ t[2] # t[3]}}

GenTimetables ==
    {[i \in 1..MaxRoutes |-> [route_id |-> RouteNames[i], stops |-> f[i]]] :
        f \in [1..MaxRoutes -> Shapes]}

GenPos == ("A" :> 0 @@ "B" :> 250 @@ "C" :> 750)

LinePos == ("A" :> 0 @@ "B" :> 250 @@ "C" :> 750 @@ "D" :> 1500 @@ "E" :> 2000)

\* a TransferConnection(...) written by hand, the defaulted fields at their defaults
Transfer(from_route_id, from_stop_id, to_route_id, to_stop_id, dist, time, min_time) ==
    [from_route_id |-> from_route_id, to_route_id |-> to_route_id,
     from_stop_id |-> from_stop_id, to_stop_id |-> to_stop_id,
     walking_distance_km |-> dist, walking_time_seconds |-> time,
     min_transfer_time |-> min_time, max_waiting_time |-> DefaultMaxWaitingTime,
     transfer_type |-> "nearby"]

\* a registry holding, for every two routes meeting at a stop, the same-stop
\* interchange between them (distance 0, walking time 0)
Interchanges(rs) ==
    LET n == Len(rs)
        keys(i) == StopKeys(rs[i].stops)
        Pair(i, j) ==
            LET k == keys(i)
                G[x \in 0..Len(k)] ==
                    IF x = 0 THEN <<>>
                    ELSE IF i # j /\ k[x] \in DOMAIN rs[j].stops
                         THEN Append(G[x - 1],
                                     Transfer(rs[i].route_id, k[x], rs[j].route_id, k[x],
                                              0, 0, DefaultMinTransferTime))
                         ELSE G[x - 1]
            IN G[Len(k)]
        F[m \in 0..(n * n)] ==
            IF m = 0 THEN <<>>
            ELSE F[m - 1] \o Pair(((m - 1) \div n) + 1, ((m - 1) % n) + 1)
    IN AddAll(NewTransferManager, F[n * n])

GenWorlds ==
    {[rs |-> rs, pos |-> GenPos, tm |-> tm] :
        <<rs, tm>> \in UNION {{<<t, <<>> >>,
                               <<t, <<compute_all_transfers(t, GenPos, 500, 15, 5)>> >>,
                               <<t, <<Interchanges(t)>> >>} : t \in GenTimetables}}

Route(route_id, stops) == [route_id |-> route_id, stops |-> stops]

\* the end-to-end scenario: R1 serves A, B, C and R2 serves D, C, E
EndToEndTimetable ==
    <<Route("R1", ("A" :> 1 @@ "B" :> 2 @@ "C" :> 3)),
      Route("R2", ("D" :> 1 @@ "C" :> 2 @@ "E" :> 3))>>

EndToEndWorld ==
    [rs |-> EndToEndTimetable, pos |-> LinePos,
     tm |-> <<AddAll(NewTransferManager,
                     <<Transfer("R1", "C", "R2", "C", 0, 0, 120)>>)>>]

\* the same timetable with an interchange of 240 s at C
SlowInterchangeWorld ==
    [rs |-> EndToEndTimetable, pos |-> LinePos,
     tm |-> <<AddAll(NewTransferManager,
                     <<Transfer("R1", "C", "R2", "C", 325, 240, 240)>>)>>]

\* three routes meeting at B, no transfer manager
HubWorld ==
    [rs |-> <<Route("R1", ("A" :> 1 @@ "B" :> 2)),
              Route("R2", ("B" :> 1 @@ "C" :> 2)),
              Route("R3", ("B" :> 1 @@ "D" :> 2))>>,
     pos |-> LinePos, tm |-> <<>>]

\* R1 reaches C late (sequence 5), R1 then R2 reaches it early; only the
\* interchanges R1->R2 at B and R1->R3 at C are registered
ExpressWorld ==
    [rs |-> <<Route("R1", ("A" :> 1 @@ "B" :> 2 @@ "C" :> 5)),
              Route("R2", ("B" :> 1 @@ "C" :> 2)),
              Route("R3", ("C" :> 1 @@ "D" :> 2))>>,
     pos |-> LinePos,
     tm |-> <<AddAll(NewTransferManager,
                     <<Transfer("R1", "B", "R2", "B", 0, 0, 120),
                       Transfer("R1", "C", "R3", "C", 0, 0, 120)>>)>>]

\* three ways from A to D, each earlier than the one before
AlternativesWorld ==
    [rs |-> <<Route("R1", ("A" :> 1 @@ "D" :> 6)),
              Route("R2", ("A" :> 1 @@ "B" :> 2 @@ "D" :> 5)),
              Route("R3", ("B" :> 1 @@ "D" :> 2))>>,
     pos |-> LinePos, tm |-> <<>>]

Scenarios == {EndToEndWorld, SlowInterchangeWorld, HubWorld, ExpressWorld,
              AlternativesWorld}

Worlds == GenWorlds \cup Scenarios

\* (origin_walk_dist, dest_walk_dist) of a query
WalkDistances == {<<0, 0>>, <<250, 125>>}

\* departure_time of a query: 08:00, in seconds of the day
DepartureTimes == {28800}

----------------------------------------------------------------------------
(* The state machine *)

NoQuery ==
    /\ origin_stop = "" /\ destination_stop = "" /\ start_time = 0
    /\ origin_walk_dist = 0 /\ dest_walk_dist = 0 /\ actual_departure = 0

NoScratch ==
    /\ earliest_arrival = EmptyDict /\ in_connection = EmptyDict
    /\ transfers_used = EmptyDict /\ queue = {} /\ visited_routes = {}
    /\ journeys_found = <<>> /\ last_pop = <<>>

NoRanking ==
    /\ all_journeys = <<>> /\ num_alternatives = 0
    /\ unique_journeys = <<>> /\ returned_journeys = <<>>

NoFindJourney ==
    /\ origin_coords = 0 /\ destination_coords = 0
    /\ origin_stops = <<>> /\ destination_stops = <<>>
    /\ scans = <<>> /\ raised = ""

NoLibraryCall ==
    /\ nearby = <<>> /\ max_distance_km = 0 /\ added = <<>> /\ trips = <<>>
    /\ planned = <<>> /\ runs = <<>> /\ built = <<>>

\* the engine after ConnectionScanAlgorithm.__init__, on a loaded timetable
Init ==
    /\ \E w \in Worlds :
          /\ route_stops = w.rs
          /\ stop_pos = w.pos
          /\ transfer_manager = w.tm
    /\ max_transfers \in 0..MaxTransfersBound
    /\ pc = "idle"
    /\ NoQuery
    /\ NoScratch
    /\ baseline = <<>>
    /\ NoRanking
    /\ max_walking_km = DefaultMaxWalkingDistance
    /\ NoFindJourney /\ NoLibraryCall

\* _connection_scan, lines 187-196: the scratch state of a new run
FreshScratch(origin, start) ==
    /\ earliest_arrival' = (origin :> start)
    /\ in_connection' = EmptyDict
    /\ transfers_used' = (origin :> 0)
    /\ queue' = {<<start, origin, NoRoute, 0>>}
    /\ visited_routes' = {}
    /\ journeys_found' = <<>>
    /\ last_pop' = <<>>

\* find_journey calls _connection_scan for one (origin stop, destination stop)
ConnectionScanBegin(origin, destination, departure, walk) ==
    /\ pc = "idle"
    /\ pc' = "scan"
    /\ origin_stop' = origin
    /\ destination_stop' = destination
    /\ actual_departure' = departure
    /\ origin_walk_dist' = walk[1]
    /\ dest_walk_dist' = walk[2]
    /\ start_time' = departure + WalkSeconds(walk[1])
    /\ FreshScratch(origin, departure + WalkSeconds(walk[1]))
    /\ UNCHANGED <<world_vars, max_transfers, baseline, rank_vars, fj_vars, lib_vars>>

\* while queue: heappop; the destination was popped
ScanDestination ==
    /\ pc = "scan" /\ queue # {}
    /\ LET e == HeapMin(queue)
           journey == _reconstruct_journey(origin_stop, destination_stop, in_connection,
                                           origin_walk_dist, dest_walk_dist,
                                           actual_departure)
           found == journeys_found \o journey
       IN /\ e[2] = destination_stop
          /\ queue' = queue \ {e}
          /\ last_pop' = e
          /\ journeys_found' = found
          /\ pc' = IF Len(journey) > 0 /\ Len(found) >= MaxJourneysPerScan
                   THEN "done" ELSE "scan"
    /\ UNCHANGED <<world_vars, max_transfers, query_vars, earliest_arrival,
                   in_connection, transfers_used, visited_routes, baseline, rank_vars, fj_vars, lib_vars>>

\* if num_transfers > self.max_transfers: continue
ScanPrune ==
    /\ pc = "scan" /\ queue # {}
    /\ LET e == HeapMin(queue)
       IN /\ e[2] # destination_stop
          /\ e[4] > max_transfers
          /\ queue' = queue \ {e}
          /\ last_pop' = e
    /\ UNCHANGED <<world_vars, max_transfers, query_vars, pc, earliest_arrival,
                   in_connection, transfers_used, visited_routes, journeys_found,
                   baseline, rank_vars, fj_vars, lib_vars>>

\* the routes at the popped stop are explored
ScanExplore ==
    /\ pc = "scan" /\ queue # {}
    /\ LET e == HeapMin(queue)
           st == ExploreRoutes([ea |-> earliest_arrival, ic |-> in_connection,
                                tu |-> transfers_used, q |-> queue \ {e},
                                vr |-> visited_routes, at |-> e[1]],
                               route_stops, transfer_manager, e[2], e[3], e[4])
       IN /\ e[2] # destination_stop
          /\ e[4] <= max_transfers
          /\ last_pop' = e
          /\ earliest_arrival' = st.ea
          /\ in_connection' = st.ic
          /\ transfers_used' = st.tu
          /\ queue' = st.q
          /\ visited_routes' = st.vr
    /\ UNCHANGED <<world_vars, max_transfers, query_vars, pc, journeys_found, baseline, rank_vars, fj_vars, lib_vars>>

\* the queue is empty: return journeys_found
ScanReturn ==
    /\ pc = "scan" /\ queue = {}
    /\ pc' = "done"
    /\ UNCHANGED <<world_vars, max_transfers, query_vars, scratch_vars, baseline, rank_vars, fj_vars, lib_vars>>

\* the caller has taken the result; the run's locals are gone
ScanReset ==
    /\ pc = "done"
    /\ pc' = "idle"
    /\ origin_stop' = "" /\ destination_stop' = "" /\ start_time' = 0
    /\ origin_walk_dist' = 0 /\ dest_walk_dist' = 0 /\ actual_departure' = 0
    /\ earliest_arrival' = EmptyDict /\ in_connection' = EmptyDict
    /\ transfers_used' = EmptyDict /\ queue' = {} /\ visited_routes' = {}
    /\ journeys_found' = <<>> /\ last_pop' = <<>>
    /\ baseline' = <<>>
    /\ UNCHANGED <<world_vars, max_transfers, rank_vars, fj_vars, lib_vars>>

QueryStops == DOMAIN stop_pos

Next ==
    \/ \E o \in QueryStops, d \in QueryStops, t \in DepartureTimes, w \in WalkDistances :
          ConnectionScanBegin(o, d, t, w)
    \/ ScanDestination
    \/ ScanPrune
    \/ ScanExplore
    \/ ScanReturn
    \/ ScanReset

Spec == Init /\ [][Next]_vars

----------------------------------------------------------------------------
(* The same query run with max_transfers = K, then with K + 1 *)

\* a second engine, ConnectionScanAlgorithm(..., max_transfers=K + 1), runs the
\* query the first engine has answered
ScanAgainRelaxed ==
    /\ pc = "done" /\ baseline = <<>>
    /\ baseline' = <<[max_transfers |-> max_transfers, journeys |-> journeys_found]>>
    /\ max_transfers' = max_transfers + 1
    /\ pc' = "scan"
    /\ FreshScratch(origin_stop, start_time)
    /\ UNCHANGED <<world_vars, query_vars, rank_vars, fj_vars, lib_vars>>

NextRelaxed ==
    \/ \E o \in QueryStops, d \in QueryStops, t \in DepartureTimes, w \in WalkDistances :
          ConnectionScanBegin(o, d, t, w)
    \/ ScanDestination
    \/ ScanPrune
    \/ ScanExplore
    \/ ScanReturn
    \/ ScanAgainRelaxed

SpecRelaxed == Init /\ [][NextRelaxed]_vars

----------------------------------------------------------------------------
(* TransferManager on its own: a registry filled by add_transfer *)

\* number of add_transfer calls
MaxRegistry == 2

\* walking_distance_km (m) and walking_time_seconds around the thresholds;
\* 300 m / 216 s is the transfer of test_complete_system.py
TransferDistances == {300, 500, 510}
TransferTimes == {216, 600, 601}

TransferInputs ==
    {[from_route_id |-> "R1", to_route_id |-> r, from_stop_id |-> s,
      to_stop_id |-> "C", walking_distance_km |-> d, walking_time_seconds |-> w,
      min_transfer_time |-> DefaultMinTransferTime,
      max_waiting_time |-> DefaultMaxWaitingTime, transfer_type |-> k] :
        r \in {"R2", "R3"}, s \in {"A", "B"}, d \in TransferDistances,
        w \in TransferTimes, k \in {"nearby", "walking"}}

\* the transfers a manager holds, over all keys
Registered(tm) ==
    UNION {{tm.transfers[k][i] : i \in 1..Len(tm.transfers[k])} : k \in DOMAIN tm.transfers}

\* TransferManager.count_transfers
count_transfers(tm) ==
    LET keys == DOMAIN tm.transfers
        RECURSIVE Sum(_)
        Sum(K) == IF K = {} THEN 0
                  ELSE LET k == CHOOSE x \in K : TRUE
                       IN Len(tm.transfers[k]) + Sum(K \ {k})
    IN Sum(keys)

InitRegistry ==
    /\ route_stops = <<>> /\ stop_pos = EmptyDict
    /\ transfer_manager = <<NewTransferManager>>
    /\ max_transfers = 0
    /\ pc = "registry"
    /\ NoQuery /\ NoScratch /\ NoRanking
    /\ baseline = <<>>
    /\ max_walking_km = DefaultMaxWalkingDistance
    /\ NoFindJourney /\ NoLibraryCall

\* manager.add_transfer(transfer)
AddTransfer(transfer) ==
    /\ pc = "registry"
    /\ count_transfers(transfer_manager[1]) < MaxRegistry
    /\ transfer_manager' = <<add_transfer(transfer_manager[1], transfer)>>
    /\ added' = Append(added, transfer)
    /\ UNCHANGED <<route_stops, stop_pos, max_walking_km, max_transfers, pc, query_vars,
                   scratch_vars, baseline, rank_vars, fj_vars, nearby,
                   max_distance_km, trips, planned, runs, built>>

NextRegistry == \E t \in TransferInputs : AddTransfer(t)

SpecRegistry == InitRegistry /\ [][NextRegistry]_vars

----------------------------------------------------------------------------
(* find_journey, lines 159-172: ranking, filtering and cutting the journeys *)

\* length of the list of collected journeys
MaxJourneys == 3
\* num_alternatives ranges over 0..MaxAlternatives
MaxAlternatives == 3

\* __lt__ comparing the transfers first and the duration second
Journey__lt__transfers_first(self, other) ==
    IF self.number_of_transfers # other.number_of_transfers
    THEN self.number_of_transfers < other.number_of_transfers
    ELSE self.total_duration < other.total_duration

\* Journey.__lt__
Journey__lt__(self, other) ==
    IF self.total_duration # other.total_duration
    THEN self.total_duration < other.total_duration
    ELSE self.number_of_transfers < other.number_of_transfers

\* list.sort(): stable, by __lt__ alone
sort(journeys) ==
    LET Insert(sorted, j) ==
            LET k == Cardinality({i \in 1..Len(sorted) : ~Journey__lt__(j, sorted[i])})
            IN SubSeq(sorted, 1, k) \o <<j>> \o SubSeq(sorted, k + 1, Len(sorted))
        F[i \in 0..Len(journeys)] ==
            IF i = 0 THEN <<>> ELSE Insert(F[i - 1], journeys[i])
    IN F[Len(journeys)]

\* [seg['route_id'] for seg in journey.segments if seg['type'] == 'transit']
TransitRoutes(journey) ==
    LET segs == journey.segments
        F[i \in 0..Len(segs)] ==
            IF i = 0 THEN <<>>
            ELSE IF segs[i].type = "transit" THEN Append(F[i - 1], segs[i].route_id)
                 ELSE F[i - 1]
    IN F[Len(segs)]

\* _filter_similar_journeys comparing each journey with the last one kept only
_filter_similar_journeys_adjacent(journeys) ==
    IF Len(journeys) = 0 THEN <<>>
    ELSE LET F[i \in 1..Len(journeys)] ==
                IF i = 1 THEN <<journeys[1]>>
                ELSE LET unique == F[i - 1]
                     IN IF TransitRoutes(journeys[i]) # TransitRoutes(unique[Len(unique)])
                        THEN Append(unique, journeys[i]) ELSE unique
         IN F[Len(journeys)]

\* _filter_similar_journeys
_filter_similar_journeys(journeys) ==
    IF Len(journeys) = 0 THEN <<>>
    ELSE LET F[i \in 1..Len(journeys)] ==
                IF i = 1 THEN <<journeys[1]>>
                ELSE LET unique == F[i - 1]
                         is_different ==
                             ~\E k \in 1..Len(unique) :
                                 TransitRoutes(journeys[i]) = TransitRoutes(unique[k])
                     IN IF is_different THEN Append(unique, journeys[i]) ELSE unique
         IN F[Len(journeys)]

\* unique_journeys[:num_alternatives]
Slice(list, n) ==
    IF n >= 0 THEN SubSeq(list, 1, Min(n, Len(list)))
    ELSE SubSeq(list, 1, Max(Len(list) + n, 0))

\* the journey _reconstruct_journey builds for a path, given as its list of hops
JourneyOf(path, owd, dwd, departure) ==
    LET ic == [s \in {path[i][2] : i \in 1..Len(path)} |->
                 LET i == CHOOSE k \in 1..Len(path) : path[k][2] = s
                 IN <<path[i][1], path[i][3], path[i][4], path[i][5]>>]
    IN _reconstruct_journey(path[1][1], path[Len(path)][2], ic, owd, dwd, departure)[1]

\* journeys as the scans of one query return them: rides from the stops around
\* an origin to the stops around a destination, departure 08:00
CandidateJourneys ==
    {JourneyOf(<< <<"A", "C", "R1", 28800, 29040>> >>, 0, 0, 28800),
     JourneyOf(<< <<"A", "C", "R1", 28980, 29220>> >>, 250, 0, 28800),
     JourneyOf(<< <<"B", "C", "R1", 28800, 28920>> >>, 0, 125, 28800),
     JourneyOf(<< <<"A", "C", "R2", 28800, 29040>> >>, 0, 0, 28800),
     JourneyOf(<< <<"A", "B", "R1", 28800, 28920>>,
                  <<"B", "C", "R2", 29040, 29160>> >>, 0, 0, 28800),
     JourneyOf(<< <<"A", "B", "R2", 28800, 28860>>,
                  <<"B", "C", "R1", 28980, 29040>> >>, 0, 0, 28800)}

JourneyLists == UNION {[1..n -> CandidateJourneys] : n \in 0..MaxJourneys}

InitRanking ==
    /\ route_stops = <<>> /\ stop_pos = EmptyDict
    /\ transfer_manager = <<>>
    /\ max_transfers = 0
    /\ pc = "collected"
    /\ NoQuery /\ NoScratch
    /\ baseline = <<>>
    /\ all_journeys \in JourneyLists
    /\ num_alternatives \in 0..MaxAlternatives
    /\ unique_journeys = <<>>
    /\ returned_journeys = <<>>
    /\ max_walking_km = DefaultMaxWalkingDistance
    /\ NoFindJourney /\ NoLibraryCall

\* if not all_journeys: return []
ReturnNoJourneys ==
    /\ pc = "collected"
    /\ Len(all_journeys) = 0
    /\ pc' = "returned"
    /\ returned_journeys' = <<>>
    /\ UNCHANGED <<world_vars, max_transfers, query_vars, scratch_vars, baseline,
                   all_journeys, num_alternatives, unique_journeys, fj_vars, lib_vars>>

\* all_journeys.sort(); unique_journeys = self._filter_similar_journeys(all_journeys);
\* return unique_journeys[:num_alternatives]
RankAndReturn ==
    /\ pc = "collected"
    /\ Len(all_journeys) > 0
    /\ pc' = "returned"
    /\ all_journeys' = sort(all_journeys)
    /\ unique_journeys' = _filter_similar_journeys(sort(all_journeys))
    /\ returned_journeys' = Slice(_filter_similar_journeys(sort(all_journeys)),
                                  num_alternatives)
    /\ UNCHANGED <<world_vars, max_transfers, query_vars, scratch_vars, baseline,
                   num_alternatives, fj_vars, lib_vars>>

NextRanking == ReturnNoJourneys \/ RankAndReturn

SpecRanking == InitRanking /\ [][NextRanking]_vars

----------------------------------------------------------------------------
(* find_journey, lines 112-157: the proximity lookups and the loop over the pairs *)

\* the locations queried, as positions (m) on the line of LinePos
Locations == {0, 500, 1800, 3500}
\* the values of max_walking_distance_km the engine is built with (m)
WalkingRadii == {500, 1000}

InitQuery ==
    /\ \E w \in Scenarios :
          /\ route_stops = w.rs
          /\ stop_pos = w.pos
          /\ transfer_manager = w.tm
    /\ max_walking_km \in WalkingRadii
    /\ max_transfers = 1
    /\ pc = "idle"
    /\ NoQuery /\ NoScratch /\ NoRanking
    /\ baseline = <<>>
    /\ NoFindJourney /\ NoLibraryCall

\* find_journey, steps 1 and 2: the stops near the origin and near the
\* destination; return [] when either list is empty
FindJourneyLookup(oc, dc, departure_time) ==
    /\ pc = "idle"
    /\ origin_coords' = oc
    /\ destination_coords' = dc
    /\ actual_departure' = departure_time
    /\ LET near_origin == get_nearby_stops(stop_pos, oc, max_walking_km, DefaultMaxStops)
           near_destination == get_nearby_stops(stop_pos, dc, max_walking_km, DefaultMaxStops)
       IN IF Len(near_origin) = 0
          THEN /\ origin_stops' = near_origin
               /\ destination_stops' = <<>>
               /\ pc' = "returned"
          ELSE /\ origin_stops' = near_origin
               /\ destination_stops' = near_destination
               /\ pc' = IF Len(near_destination) = 0 THEN "returned" ELSE "pairs"
    /\ returned_journeys' = <<>>
    /\ all_journeys' = <<>>
    /\ scans' = <<>>
    /\ raised' = ""
    /\ UNCHANGED <<world_vars, max_transfers, origin_stop, destination_stop, start_time,
                   origin_walk_dist, dest_walk_dist, scratch_vars, baseline,
                   num_alternatives, unique_journeys, lib_vars>>

\* find_journey, step 3, first pass of
\*   for origin_stop, origin_dist, origin_walk_time in origin_stops:
\*       for dest_stop, dest_dist, dest_walk_time in destination_stops:
\* unpacking a tuple that has not three items raises ValueError; with three
\* items the first _connection_scan starts
FindJourneyUnpack ==
    /\ pc = "pairs"
    /\ LET o == origin_stops[1]
           d == destination_stops[1]
       IN IF Len(o) # 3 \/ Len(d) # 3
          THEN /\ raised' = "ValueError"
               /\ pc' = "raised"
               /\ UNCHANGED <<origin_stop, destination_stop, start_time, origin_walk_dist,
                              dest_walk_dist, scratch_vars, scans>>
          ELSE /\ raised' = ""
               /\ pc' = "scan"
               /\ origin_stop' = o[1]
               /\ destination_stop' = d[1]
               /\ origin_walk_dist' = o[2]
               /\ dest_walk_dist' = d[2]
               /\ start_time' = actual_departure + o[3]
               /\ scans' = Append(scans, <<o[1], d[1], actual_departure + o[3]>>)
               /\ FreshScratch(o[1], actual_departure + o[3])
    /\ UNCHANGED <<world_vars, max_transfers, actual_departure, baseline, rank_vars,
                   origin_coords, destination_coords, origin_stops, destination_stops,
                   lib_vars>>

\* the caller has taken the result or caught the exception
FindJourneyReset ==
    /\ pc \in {"returned", "raised"}
    /\ pc' = "idle"
    /\ origin_coords' = 0 /\ destination_coords' = 0
    /\ origin_stops' = <<>> /\ destination_stops' = <<>>
    /\ scans' = <<>> /\ raised' = ""
    /\ actual_departure' = 0
    /\ UNCHANGED <<world_vars, max_transfers, origin_stop, destination_stop, start_time,
                   origin_walk_dist, dest_walk_dist, scratch_vars, baseline, rank_vars,
                   lib_vars>>

NextQuery ==
    \/ \E oc \in Locations, dc \in Locations, t \in DepartureTimes :
          FindJourneyLookup(oc, dc, t)
    \/ FindJourneyUnpack
    \/ FindJourneyReset

SpecQuery == InitQuery /\ [][NextQuery]_vars

----------------------------------------------------------------------------
(* compute_all_transfers on its own: a registry discovered from a timetable *)

\* R1 serves A; R2 serves B, C, D, E further along the line
BranchWorld ==
    [rs |-> <<Route("R1", "A" :> 1), Route("R2", "B" :> 1 @@ "C" :> 2 @@ "D" :> 3 @@ "E" :> 4)>>,
     pos |-> LinePos, tm |-> <<>>]

\* a dense district: 49 stops of the feed lie within 25..475 m of the hub H
\* and Z lies at 500 m; R1 serves H, R2 serves S01 and S02, R3 serves Z, and
\* the other stops are served by no route of route_stops
DensePos ==
    [s \in {"H", "Z"} \cup {DenseStops[i] : i \in 1..Len(DenseStops)} |->
        IF s = "H" THEN 0
        ELSE IF s = "Z" THEN 500
        ELSE LET i == CHOOSE k \in 1..Len(DenseStops) : DenseStops[k] = s
             IN 25 * ((i % 19) + 1)]

DenseWorld ==
    [rs |-> <<Route("R1", "H" :> 1),
              Route("R2", "S01" :> 1 @@ "S02" :> 2),
              Route("R3", "Z" :> 1)>>,
     pos |-> DensePos, tm |-> <<>>]

\* the timetables transfers are discovered on
DiscoveryWorlds ==
    {[rs |-> t, pos |-> GenPos, tm |-> <<>>] : t \in GenTimetables}
    \cup {[rs |-> w.rs, pos |-> w.pos, tm |-> <<>>] : w \in Scenarios}
    \cup {BranchWorld, DenseWorld}

\* the values of max_distance_km (m)
DiscoveryRadii == {250, 500, 750, 2000}

InitDiscovery ==
    /\ \E w \in DiscoveryWorlds :
          /\ route_stops = w.rs
          /\ stop_pos = w.pos
          /\ transfer_manager = w.tm
    /\ max_walking_km = DefaultMaxWalkingDistance
    /\ max_transfers = 0
    /\ pc = "loaded"
    /\ NoQuery /\ NoScratch /\ NoRanking
    /\ baseline = <<>>
    /\ NoFindJourney /\ NoLibraryCall

\* gtfs.compute_all_transfers(max_distance_km=d); the result is also stored in
\* self.transfer_manager
ComputeAllTransfers(d) ==
    /\ pc = "loaded"
    /\ pc' = "discovered"
    /\ max_distance_km' = d
    /\ transfer_manager' = <<compute_all_transfers(route_stops, stop_pos, d, 15, walking_speed)>>
    /\ UNCHANGED <<route_stops, stop_pos, max_walking_km, max_transfers, query_vars,
                   scratch_vars, baseline, rank_vars, fj_vars, nearby, added, trips, planned, runs, built>>

NextDiscovery == \E d \in DiscoveryRadii : ComputeAllTransfers(d)

SpecDiscovery == InitDiscovery /\ [][NextDiscovery]_vars

----------------------------------------------------------------------------
(* JourneyPlanner.py and JourneyPlannerV2.py: the Journey classes of the two planners *)

\* timedelta(minutes=30): the ride time plan_journey assumes, in seconds
AssumedTransitSeconds == 1800
\* max_stops=3 in plan_journey
PlanMaxStops == 3

\* JourneyPlanner.py JourneyLeg.__init__
JourneyLeg(leg_type, start, end, distance, route_id, from_stop, to_stop) ==
    [leg_type |-> leg_type, start_time |-> start, end_time |-> end,
     duration |-> end - start, walking_distance |-> distance,
     route_id |-> route_id, from_stop |-> from_stop, to_stop |-> to_stop]

\* JourneyPlanner.py Journey.__init__
NewJourney ==
    [legs |-> <<>>, total_duration |-> 0, total_walking_distance |-> 0,
     number_of_transfers |-> 0]

\* Journey.add_leg counting the rides as transfers
Journey_add_leg_counting_rides(journey, leg) ==
    [legs |-> Append(journey.legs, leg),
     total_duration |-> journey.total_duration + leg.duration,
     total_walking_distance |->
         IF leg.leg_type = "walk"
         THEN journey.total_walking_distance + leg.walking_distance
         ELSE journey.total_walking_distance,
     number_of_transfers |->
         IF leg.leg_type # "walk"
         THEN journey.number_of_transfers + 1
         ELSE journey.number_of_transfers]

\* JourneyPlanner.py Journey.add_leg
Journey_add_leg(journey, leg) ==
    [legs |-> Append(journey.legs, leg),
     total_duration |-> journey.total_duration + leg.duration,
     total_walking_distance |->
         IF leg.leg_type = "walk"
         THEN journey.total_walking_distance + leg.walking_distance
         ELSE journey.total_walking_distance,
     number_of_transfers |->
         IF leg.leg_type # "walk" /\ leg.leg_type = "transfer"
         THEN journey.number_of_transfers + 1
         ELSE journey.number_of_transfers]

\* find_nearby_origin_stops with the farthest of the stops found first
find_nearby_origin_stops_farthest_first(pos, coords, margin, max_stops) ==
    LET nearby_stops == get_nearby_stops(pos, coords, margin, max_stops)
        n == Len(nearby_stops)
    IN [i \in 1..n |->
           <<nearby_stops[n + 1 - i][1], nearby_stops[n + 1 - i][2],
             WalkSeconds(nearby_stops[n + 1 - i][2])>>]

\* find_nearby_origin_stops: (stop_id, distance, walking_time) of the stops around
find_nearby_origin_stops(pos, coords, margin, max_stops) ==
    LET nearby_stops == get_nearby_stops(pos, coords, margin, max_stops)
    IN [i \in 1..Len(nearby_stops) |->
           <<nearby_stops[i][1], nearby_stops[i][2], WalkSeconds(nearby_stops[i][2])>>]

\* the loops of plan_journey over routes_at_origin, the stops of each route (in
\* the order of their sequence) and destination_stops: <<>> when no stop of a
\* route at the origin stop is a destination stop, else <<best_route,
\* best_destination_stop>>, the first pair of the least total distance
BestDirectRoute(rs, routes_at_origin, origin_distance, dest_stops) ==
    LET hits == {c \in (1..Len(routes_at_origin)) \X (1..Len(dest_stops)) :
                    dest_stops[c[2]][1] \in DOMAIN StopsOf(rs, routes_at_origin[c[1]])}
        total(c) == origin_distance + dest_stops[c[2]][2]
        seq(c) == StopsOf(rs, routes_at_origin[c[1]])[dest_stops[c[2]][1]]
        Before(c, d) == \/ c[1] < d[1]
                        \/ c[1] = d[1] /\ seq(c) < seq(d)
                        \/ c[1] = d[1] /\ seq(c) = seq(d) /\ c[2] < d[2]
    IN IF hits = {} THEN <<>>
       ELSE LET best == CHOOSE c \in hits :
                           \A d \in hits \ {c} :
                               \/ total(c) < total(d)
                               \/ total(c) = total(d) /\ Before(c, d)
            IN <<routes_at_origin[best[1]], dest_stops[best[2]][1]>>

\* JourneyPlanner.plan_journey: <<>> is None, <<journey>> a Journey
plan_journey(rs, pos, margin, origin, destination, departure_time) ==
    LET o_stops == find_nearby_origin_stops(pos, origin, margin, PlanMaxStops)
        d_stops == find_nearby_origin_stops(pos, destination, margin, PlanMaxStops)
    IN IF Len(o_stops) = 0 \/ Len(d_stops) = 0 THEN <<>>
       ELSE LET best_origin_stop == o_stops[1][1]
                origin_distance == o_stops[1][2]
                walk_end == departure_time + o_stops[1][3]
                initial_walk == JourneyLeg("walk", departure_time, walk_end,
                                           origin_distance, NoRoute, "", "")
                routes_at_origin == _get_routes_at_stop(rs, best_origin_stop)
                best == BestDirectRoute(rs, routes_at_origin, origin_distance, d_stops)
            IN IF Len(routes_at_origin) = 0 \/ Len(best) = 0 THEN <<>>
               ELSE LET transit_end == walk_end + AssumedTransitSeconds
                        transit_leg == JourneyLeg("transit", walk_end, transit_end, 0,
                                                  best[1], best_origin_stop, best[2])
                        k == CHOOSE i \in 1..Len(d_stops) :
                                /\ d_stops[i][1] = best[2]
                                /\ \A j \in 1..(i - 1) : d_stops[j][1] # best[2]
                        dest_distance == d_stops[k][2]
                        final_walk == JourneyLeg("walk", transit_end,
                                                 transit_end + WalkSeconds(dest_distance),
                                                 dest_distance, NoRoute, "", "")
                    IN << Journey_add_leg(
                              Journey_add_leg(
                                  Journey_add_leg(NewJourney, initial_walk),
                                  transit_leg),
                              final_walk) >>

\* JourneyPlannerV2.py JourneyLeg.__init__
JourneyLegV2(leg_type, start, end, distance, route_id, from_stop, to_stop) ==
    [leg_type |-> leg_type, start_time |-> start, end_time |-> end,
     duration |-> end - start, distance |-> distance,
     route_id |-> route_id, from_stop |-> from_stop, to_stop |-> to_stop]

\* JourneyPlannerV2.py Journey.total_duration
total_duration(journey) ==
    IF Len(journey.legs) = 0 THEN 0
    ELSE journey.legs[Len(journey.legs)].end_time - journey.legs[1].start_time

\* JourneyPlannerV2.py Journey.total_walking_distance
total_walking_distance(journey) ==
    LET legs == journey.legs
        F[i \in 0..Len(legs)] ==
            IF i = 0 THEN 0
            ELSE IF legs[i].leg_type = "walk" THEN F[i - 1] + legs[i].distance
                 ELSE F[i - 1]
    IN F[Len(legs)]

\* JourneyPlannerV2.py Journey.number_of_transfers
number_of_transfers(journey) ==
    Cardinality({i \in 1..Len(journey.legs) : journey.legs[i].leg_type = "transfer"})

\* _convert_csa_journey_to_legacy: the legs made of the segments of a CSA journey
_convert_csa_journey_to_legacy(csa_journey) ==
    LET segments == csa_journey.segments
        F[i \in 0..Len(segments)] ==
            IF i = 0 THEN <<>>
            ELSE LET segment == segments[i]
                     legs == F[i - 1]
                 IN IF segment.type = "walk"
                    THEN Append(legs, JourneyLegV2("walk", segment.start_time,
                                                   segment.end_time, segment.distance_km,
                                                   NoRoute, "", ""))
                    ELSE IF segment.type = "transit"
                    THEN Append(legs, JourneyLegV2("transit", segment.departure_time,
                                                   segment.arrival_time, 0,
                                                   segment.route_id, segment.from_stop,
                                                   segment.to_stop))
                    ELSE LET start == legs[Len(legs)].end_time
                         IN Append(legs, JourneyLegV2("transfer", start,
                                                      start + segment.duration, 0,
                                                      NoRoute, "", ""))
    IN [legs |-> F[Len(segments)]]

\* the departure times asked for: 08:00 and 08:30
PlanDepartures == {28800, 30600}

InitPlanners ==
    /\ \E w \in Scenarios :
          /\ route_stops = w.rs
          /\ stop_pos = w.pos
          /\ transfer_manager = w.tm
    /\ max_walking_km \in WalkingRadii
    /\ max_transfers = 1
    /\ pc = "idle"
    /\ NoQuery /\ NoScratch /\ NoRanking
    /\ baseline = <<>>
    /\ NoFindJourney /\ NoLibraryCall

Planned(planner, journey) ==
    /\ pc = "idle"
    /\ pc' = "planned"
    /\ planned' = <<[planner |-> planner, journey |-> journey]>>
    /\ UNCHANGED <<world_vars, max_transfers, query_vars, scratch_vars, baseline,
                   rank_vars, fj_vars, nearby, max_distance_km, added, trips, runs, built>>

\* JourneyPlanner(gtfs, max_walking_distance_km).plan_journey(origin, destination, departure_time)
PlanJourney(origin, destination, departure_time) ==
    /\ pc = "idle"
    /\ pc' = "planned"
    /\ planned' = <<[planner |-> "JourneyPlanner",
                     origin |-> origin, destination |-> destination,
                     departure_time |-> departure_time,
                     journey |-> plan_journey(route_stops, stop_pos, max_walking_km,
                                              origin, destination, departure_time)]>>
    /\ UNCHANGED <<world_vars, max_transfers, query_vars, scratch_vars, baseline,
                   rank_vars, fj_vars, nearby, max_distance_km, added, trips, runs, built>>

\* a journey of the engine, as _reconstruct_journey builds it
ReconstructJourney(journey) == Planned("ConnectionScanAlgorithm", <<journey>>)

\* JourneyPlannerV2: return self._convert_csa_journey_to_legacy(csa_journeys[0])
ConvertCsaJourney(journey) ==
    Planned("JourneyPlannerV2", <<_convert_csa_journey_to_legacy(journey)>>)

\* the caller drops the journey and asks again
PlannerReset ==
    /\ pc = "planned"
    /\ pc' = "idle"
    /\ planned' = <<>>
    /\ UNCHANGED <<world_vars, max_transfers, query_vars, scratch_vars, baseline,
                   rank_vars, fj_vars, nearby, max_distance_km, added, trips, runs, built>>

NextPlanners ==
    \/ \E o \in Locations, d \in Locations, t \in PlanDepartures : PlanJourney(o, d, t)
    \/ \E j \in CandidateJourneys : ReconstructJourney(j)
    \/ \E j \in CandidateJourneys : ConvertCsaJourney(j)
    \/ PlannerReset

SpecPlanners == InitPlanners /\ [][NextPlanners]_vars

----------------------------------------------------------------------------
(* Two _connection_scan activations on one engine *)

\* the activation record of one _connection_scan call: its arguments, the
\* engine attributes as they were when it was called, and its locals
ScanFrame(rs, tmopt, K, origin, destination, departure, walk) ==
    [origin |-> origin, destination |-> destination,
     start |-> departure + WalkSeconds(walk[1]),
     owd |-> walk[1], dwd |-> walk[2], departure |-> departure,
     engine |-> [route_stops |-> rs, transfer_manager |-> tmopt, max_transfers |-> K],
     st |-> ScanLocals(origin, departure + WalkSeconds(walk[1])),
     returned |-> FALSE]

\* one pass of activation i with the tables held by the engine instead of the
\* call: what one call stores in earliest_arrival the other calls read
RunPass_tables_on_engine(frames, i, rs, tmopt, K) ==
    LET f == frames[i]
        n == ScanPass(f.st, rs, tmopt, K, f.origin, f.destination, f.owd, f.dwd, f.departure)
    IN [j \in DOMAIN frames |->
           IF j = i THEN [f EXCEPT !.st = n]
           ELSE [frames[j] EXCEPT !.st.ea = n.ea]]

\* one pass of activation i that leaves the entry it popped on the queue
RunPass_entry_kept(frames, i, rs, tmopt, K) ==
    LET f == frames[i]
        n == ScanPass(f.st, rs, tmopt, K, f.origin, f.destination, f.owd, f.dwd, f.departure)
    IN [frames EXCEPT ![i].st = [n EXCEPT !.q = n.q \cup {HeapMin(f.st.q)}]]

\* one pass of the while loop of activation i: it reads the engine and writes
\* the locals of activation i only
RunPass(frames, i, rs, tmopt, K) ==
    LET f == frames[i]
    IN [frames EXCEPT ![i].st =
           ScanPass(f.st, rs, tmopt, K, f.origin, f.destination, f.owd, f.dwd, f.departure)]

\* the timetables two scans are run on
TwoScanWorlds == {HubWorld, AlternativesWorld}

\* the walks to the origin stop and from the destination stop, in metres
TwoScanWalk == <<250, 125>>

InitTwoScans ==
    /\ \E w \in TwoScanWorlds :
          /\ route_stops = w.rs
          /\ stop_pos = w.pos
          /\ transfer_manager = w.tm
    /\ max_transfers \in 0..MaxTransfersBound
    /\ pc = "idle"
    /\ NoQuery /\ NoScratch /\ NoRanking
    /\ baseline = <<>>
    /\ max_walking_km = DefaultMaxWalkingDistance
    /\ NoFindJourney /\ NoLibraryCall

\* two calls of _connection_scan are made on the engine
TwoScansBegin(o1, d1, o2, d2, departure, walk) ==
    /\ pc = "idle"
    /\ pc' = "scans"
    /\ runs' = <<ScanFrame(route_stops, transfer_manager, max_transfers, o1, d1, departure, walk),
                 ScanFrame(route_stops, transfer_manager, max_transfers, o2, d2, departure, walk)>>
    /\ UNCHANGED <<world_vars, max_transfers, query_vars, scratch_vars, baseline,
                   rank_vars, fj_vars, nearby, max_distance_km, added, trips, planned, built>>

\* activation i runs one pass of its loop
RunScanPass(i) ==
    /\ pc = "scans"
    /\ i \in DOMAIN runs
    /\ ~runs[i].returned
    /\ runs[i].st.q # {} /\ ~runs[i].st.stop
    /\ runs' = RunPass(runs, i, route_stops, transfer_manager, max_transfers)
    /\ UNCHANGED <<world_vars, max_transfers, pc, query_vars, scratch_vars, baseline,
                   rank_vars, fj_vars, nearby, max_distance_km, added, trips, planned, built>>

\* activation i leaves its loop: return journeys_found
RunReturn(i) ==
    /\ pc = "scans"
    /\ i \in DOMAIN runs
    /\ ~runs[i].returned
    /\ runs[i].st.q = {} \/ runs[i].st.stop
    /\ runs' = [runs EXCEPT ![i].returned = TRUE]
    /\ UNCHANGED <<world_vars, max_transfers, pc, query_vars, scratch_vars, baseline,
                   rank_vars, fj_vars, nearby, max_distance_km, added, trips, planned, built>>

\* both results have been taken
RunsReset ==
    /\ pc = "scans"
    /\ \A i \in DOMAIN runs : runs[i].returned
    /\ pc' = "idle"
    /\ runs' = <<>>
    /\ UNCHANGED <<world_vars, max_transfers, query_vars, scratch_vars, baseline,
                   rank_vars, fj_vars, nearby, max_distance_km, added, trips, planned, built>>

NextTwoScans ==
    \/ \E o1 \in QueryStops, d1 \in QueryStops, o2 \in QueryStops, d2 \in QueryStops,
          t \in DepartureTimes :
          TwoScansBegin(o1, d1, o2, d2, t, TwoScanWalk)
    \/ \E i \in 1..2 : RunScanPass(i)
    \/ \E i \in 1..2 : RunReturn(i)
    \/ RunsReset

SpecTwoScans == InitTwoScans /\ [][NextTwoScans]_vars

----------------------------------------------------------------------------
(* One scan run to its end, with max_transfers up to more than the routes *)

\* the values of max_transfers the engine is built with; no timetable of the
\* model has five routes
TerminationMaxTransfers == {0, 1, 5}

InitTermination ==
    /\ \E w \in Scenarios :
          /\ route_stops = w.rs
          /\ stop_pos = w.pos
          /\ transfer_manager = w.tm
    /\ max_transfers \in TerminationMaxTransfers
    /\ pc = "idle"
    /\ NoQuery /\ NoScratch /\ NoRanking
    /\ baseline = <<>>
    /\ max_walking_km = DefaultMaxWalkingDistance
    /\ NoFindJourney /\ NoLibraryCall

\* one call of _connection_scan is made on the engine
OneScanBegin(origin, destination, departure, walk) ==
    /\ pc = "idle"
    /\ pc' = "scans"
    /\ runs' = <<ScanFrame(route_stops, transfer_manager, max_transfers, origin, destination,
                           departure, walk)>>
    /\ UNCHANGED <<world_vars, max_transfers, query_vars, scratch_vars, baseline,
                   rank_vars, fj_vars, nearby, max_distance_km, added, trips, planned, built>>

\* the next thing the call does: one more pass of its loop, or its return
ScanStep == RunScanPass(1) \/ RunReturn(1)

NextTermination ==
    \/ \E o \in QueryStops, d \in QueryStops, t \in DepartureTimes, w \in WalkDistances :
          OneScanBegin(o, d, t, w)
    \/ ScanStep
    \/ RunsReset

\* _connection_scan is one sequential loop: once called it keeps taking its
\* next pass until it returns
SpecTermination == InitTermination /\ [][NextTermination]_vars /\ WF_vars(ScanStep)

----------------------------------------------------------------------------
(* Construction of an engine or a planner, and its first query *)

\* the arguments the constructors are called with: distances in metres,
\* speeds in km/h
ConfigDistances == {-500, 0, 1000}
ConfigSpeeds == {-5, 0, 5}
ConfigMaxTransfers == {-1, 0, 2}

\* ConnectionScanAlgorithm.__init__: the arguments are stored as given
ConnectionScanAlgorithm_init(max_walking_distance_km, walking_speed_kmh, K) ==
    [class |-> "ConnectionScanAlgorithm", constructed |-> TRUE,
     max_walking_km |-> max_walking_distance_km, walking_speed |-> walking_speed_kmh,
     max_transfers |-> K, query |-> <<>>]

\* JourneyPlanner.__init__: the arguments are stored as given
JourneyPlanner_init(max_walking_distance_km, walking_speed_kmh) ==
    [class |-> "JourneyPlanner", constructed |-> TRUE,
     max_walking_km |-> max_walking_distance_km, walking_speed |-> walking_speed_kmh,
     max_transfers |-> 0, query |-> <<>>]

\* a scan on the engine, from the stop `origin` to the stop `destination`:
\* the walk of the first journey built divides by self.walking_speed
EngineQuery(engine, rs, tmopt, origin, destination, departure) ==
    LET found == _connection_scan(rs, tmopt, engine.max_transfers, origin, destination,
                                  departure, 0, 0, departure)
    IN IF Len(found) > 0 /\ engine.walking_speed = 0
       THEN [raised |-> "ZeroDivisionError", journeys |-> 0]
       ELSE [raised |-> "", journeys |-> Len(found)]

\* JourneyPlanner.plan_journey up to the walking times of the stops near the
\* origin, each of them distance / self.walking_speed
PlannerQuery(planner, pos, oc) ==
    IF Len(get_nearby_stops(pos, oc, planner.max_walking_km, PlanMaxStops)) > 0
       /\ planner.walking_speed = 0
    THEN [raised |-> "ZeroDivisionError", journeys |-> 0]
    ELSE [raised |-> "",
          journeys |-> Len(get_nearby_stops(pos, oc, planner.max_walking_km, PlanMaxStops))]

InitConstruction ==
    /\ \E w \in {EndToEndWorld, HubWorld} :
          /\ route_stops = w.rs
          /\ stop_pos = w.pos
          /\ transfer_manager = w.tm
    /\ max_transfers = 0
    /\ pc = "idle"
    /\ NoQuery /\ NoScratch /\ NoRanking
    /\ baseline = <<>>
    /\ max_walking_km = DefaultMaxWalkingDistance
    /\ NoFindJourney /\ NoLibraryCall

Constructed(object) ==
    /\ pc = "idle"
    /\ pc' = "built"
    /\ built' = <<object>>
    /\ UNCHANGED <<world_vars, max_transfers, query_vars, scratch_vars, baseline,
                   rank_vars, fj_vars, nearby, max_distance_km, added, trips, planned, runs>>

\* ConnectionScanAlgorithm(gtfs, transfer_manager, max_walking_distance_km,
\* walking_speed_kmh, max_transfers)
ConstructEngine(mw, ws, K) == Constructed(ConnectionScanAlgorithm_init(mw, ws, K))

\* JourneyPlanner(gtfs, max_walking_distance_km, walking_speed_kmh)
ConstructPlanner(mw, ws) == Constructed(JourneyPlanner_init(mw, ws))

Queried(outcome) ==
    /\ pc' = "queried"
    /\ built' = <<[built[1] EXCEPT !.query = <<outcome>>]>>
    /\ UNCHANGED <<world_vars, max_transfers, query_vars, scratch_vars, baseline,
                   rank_vars, fj_vars, nearby, max_distance_km, added, trips, planned, runs>>

\* the first query put to the constructed engine
QueryEngine(origin, destination, departure) ==
    /\ pc = "built"
    /\ built[1].class = "ConnectionScanAlgorithm"
    /\ Queried(EngineQuery(built[1], route_stops, transfer_manager, origin, destination,
                           departure))

\* the first query put to the constructed planner
QueryPlanner(oc) ==
    /\ pc = "built"
    /\ built[1].class = "JourneyPlanner"
    /\ Queried(PlannerQuery(built[1], stop_pos, oc))

\* the object is dropped
ConstructionReset ==
    /\ pc = "queried"
    /\ pc' = "idle"
    /\ built' = <<>>
    /\ UNCHANGED <<world_vars, max_transfers, query_vars, scratch_vars, baseline,
                   rank_vars, fj_vars, nearby, max_distance_km, added, trips, planned, runs>>

NextConstruction ==
    \/ \E mw \in ConfigDistances, ws \in ConfigSpeeds, K \in ConfigMaxTransfers :
          ConstructEngine(mw, ws, K)
    \/ \E mw \in ConfigDistances, ws \in ConfigSpeeds : ConstructPlanner(mw, ws)
    \/ \E o \in QueryStops, d \in QueryStops, t \in DepartureTimes : QueryEngine(o, d, t)
    \/ \E oc \in Locations : QueryPlanner(oc)
    \/ ConstructionReset

SpecConstruction == InitConstruction /\ [][NextConstruction]_vars

----------------------------------------------------------------------------
(* JourneyPlannerV2.plan_journey: the full search and its fallback *)

\* max_stops: int = 5 in JourneyPlannerV2.find_nearby_origin_stops
V2MaxStops == 5
\* num_alternatives=3 in the find_journey call of plan_journey
V2NumAlternatives == 3

\* find_journey run from its first line to its return or raise:
\* [raised, journeys, scans], scans the number of _connection_scan calls made
find_journey(rs, pos, tmopt, K, margin, oc, dc, departure_time, n) ==
    LET Searched(o_stops, d_stops) ==
            LET pairs == [k \in 1..(Len(o_stops) * Len(d_stops)) |->
                             <<o_stops[((k - 1) \div Len(d_stops)) + 1],
                               d_stops[((k - 1) % Len(d_stops)) + 1]>>]
                F[k \in 0..Len(pairs)] ==
                    IF k = 0 THEN <<>>
                    ELSE F[k - 1] \o
                         _connection_scan(rs, tmopt, K, pairs[k][1][1], pairs[k][2][1],
                                          departure_time + pairs[k][1][3],
                                          pairs[k][1][2], pairs[k][2][2], departure_time)
                Ranked(all_found) ==
                    IF Len(all_found) = 0 THEN <<>>
                    ELSE Slice(_filter_similar_journeys(sort(all_found)), n)
            IN IF Len(o_stops) = 0 \/ Len(d_stops) = 0
               THEN [raised |-> "", journeys |-> <<>>, scans |-> 0]
               ELSE IF Len(o_stops[1]) # 3 \/ Len(d_stops[1]) # 3
               THEN [raised |-> "ValueError", journeys |-> <<>>, scans |-> 0]
               ELSE [raised |-> "",
                     journeys |-> CHOOSE r \in {Ranked(f) : f \in {F[Len(pairs)]}} : TRUE,
                     scans |-> Len(pairs)]
    IN CHOOSE out \in
           {Searched(near[1], near[2]) :
               near \in {<<get_nearby_stops(pos, oc, margin, DefaultMaxStops),
                           get_nearby_stops(pos, dc, margin, DefaultMaxStops)>>}} : TRUE

\* JourneyPlannerV2.find_nearby_origin_stops on a GTFSData: [raised, stops].
\* The loop body reads self.gtfs.stop_coords, an attribute GTFSData does not
\* have, so the first stop found raises AttributeError.
find_nearby_origin_stops_v2(pos, coords, margin, max_stops) ==
    IF Len(get_nearby_stops(pos, coords, margin, max_stops)) = 0
    THEN [raised |-> "", stops |-> <<>>]
    ELSE [raised |-> "AttributeError", stops |-> <<>>]

\* _plan_journey_simple: [raised, journey], journey <<>> for None. A stop near
\* the origin raises in find_nearby_origin_stops; without one the method
\* returns None at its first test, so no later line is reached.
_plan_journey_simple(pos, margin, oc, dc, departure_time) ==
    LET o_stops == find_nearby_origin_stops_v2(pos, oc, margin, V2MaxStops)
    IN IF o_stops.raised # "" THEN [raised |-> o_stops.raised, journey |-> <<>>]
       ELSE [raised |-> "", journey |-> <<>>]

\* JourneyPlannerV2.plan_journey: what was done and what came out.
\* find_journey is "not called", "returned" or "raised"; fallback says that the
\* outcome is that of _plan_journey_simple. "except Exception" catches what
\* find_journey and the first _plan_journey_simple raise and calls
\* _plan_journey_simple again, outside the try.
plan_journey_v2(rs, pos, tmopt, margin, oc, dc, departure_time, K, use_csa) ==
    LET simple == _plan_journey_simple(pos, margin, oc, dc, departure_time)
        Dispatch(csa) ==
            IF csa.raised # ""
            THEN [use_csa |-> TRUE, find_journey |-> "raised", csa_journeys |-> <<>>,
                  scans |-> csa.scans, fallback |-> TRUE,
                  raised |-> simple.raised, journey |-> simple.journey]
            ELSE IF Len(csa.journeys) > 0
            THEN [use_csa |-> TRUE, find_journey |-> "returned",
                  csa_journeys |-> csa.journeys, scans |-> csa.scans, fallback |-> FALSE,
                  raised |-> "",
                  journey |-> <<_convert_csa_journey_to_legacy(csa.journeys[1])>>]
            ELSE [use_csa |-> TRUE, find_journey |-> "returned", csa_journeys |-> <<>>,
                  scans |-> csa.scans, fallback |-> TRUE,
                  raised |-> simple.raised, journey |-> simple.journey]
    IN IF use_csa
       THEN CHOOSE out \in
                {Dispatch(c) :
                    c \in {find_journey(rs, pos, tmopt, K, margin, oc, dc, departure_time,
                                        V2NumAlternatives)}} : TRUE
       ELSE [use_csa |-> FALSE, find_journey |-> "not called", csa_journeys |-> <<>>,
             scans |-> 0, fallback |-> TRUE,
             raised |-> simple.raised, journey |-> simple.journey]

\* the values of max_transfers a journey is planned with
PlanMaxTransfers == {0, 2}

\* JourneyPlannerV2(gtfs, max_walking_km).plan_journey(origin, destination,
\* departure_time, max_transfers, use_csa)
PlanJourneyV2(oc, dc, departure_time, K, use_csa) ==
    /\ pc = "idle"
    /\ pc' = "planned"
    /\ planned' = <<[planner |-> "JourneyPlannerV2.plan_journey",
                     origin |-> oc, destination |-> dc, max_transfers |-> K,
                     outcome |-> plan_journey_v2(route_stops, stop_pos, transfer_manager,
                                                 max_walking_km, oc, dc, departure_time,
                                                 K, use_csa)]>>
    /\ UNCHANGED <<world_vars, max_transfers, query_vars, scratch_vars, baseline,
                   rank_vars, fj_vars, nearby, max_distance_km, added, trips, runs, built>>

NextPlannerV2 ==
    \/ \E oc \in Locations, dc \in Locations, t \in DepartureTimes, K \in PlanMaxTransfers,
          use_csa \in BOOLEAN : PlanJourneyV2(oc, dc, t, K, use_csa)
    \/ PlannerReset

SpecPlannerV2 == InitPlanners /\ [][NextPlannerV2]_vars

----------------------------------------------------------------------------
(* get_nearby_stops on its own *)

\* two stops at the same distance on either side of B, and one far away
TiePos == ("A" :> 0 @@ "B" :> 250 @@ "C" :> 500 @@ "D" :> 500 @@ "E" :> 3000)

StopMaps == {LinePos, TiePos, DensePos}

\* the points asked about, the margins (m) and the values of max_stops
NearbyPoints == {0, 250, 375, 1800}
NearbyMargins == {0, 250, 500, 1000}
NearbyMaxStops == {0, 1, 2, 3, DefaultMaxStops}

InitNearby ==
    /\ route_stops = <<>>
    /\ stop_pos \in StopMaps
    /\ transfer_manager = <<>>
    /\ max_walking_km = DefaultMaxWalkingDistance
    /\ max_transfers = 0
    /\ pc = "loaded"
    /\ NoQuery /\ NoScratch /\ NoRanking
    /\ baseline = <<>>
    /\ NoFindJourney /\ NoLibraryCall

\* gtfs.get_nearby_stops(location_coords, margin_km, max_stops)
GetNearbyStops(location, margin_km, max_stops) ==
    /\ pc = "loaded"
    /\ nearby' = <<[location |-> location, margin_km |-> margin_km,
                    max_stops |-> max_stops,
                    result |-> get_nearby_stops(stop_pos, location, margin_km, max_stops)]>>
    /\ pc' = "called"
    /\ UNCHANGED <<world_vars, max_transfers, query_vars, scratch_vars, baseline,
                   rank_vars, fj_vars, max_distance_km, added, trips, planned, runs, built>>

NextNearby ==
    \E l \in NearbyPoints, m \in NearbyMargins, n \in NearbyMaxStops : GetNearbyStops(l, m, n)

SpecNearby == InitNearby /\ [][NextNearby]_vars

----------------------------------------------------------------------------
(* GTFSData.py: get_gtfs_data, the construction of route_stops from the feed *)

\* number of trips of a feed
MaxTrips == 2

\* sched.routes
FeedRoutes == <<"R1", "R2">>

\* trip.stop_times of the trips of the feeds: the stops visited, in order; the
\* stop_sequence of a visit is its place in the list
StopPatterns == {<<"A", "B", "C">>, <<"C", "B", "A">>, <<"A", "B">>, <<"B", "C", "D">>}

\* a trip: trip_id is "<route>-<I|R>-...", given by its second part
Trip(route_id, orientation, stops) ==
    [route_id |-> route_id, orientation |-> orientation,
     direction_id |-> IF orientation = "I" THEN 0 ELSE 1,
     stop_times |-> [i \in 1..Len(stops) |-> [stop_id |-> stops[i], stop_sequence |-> i]]]

FeedTrips ==
    {Trip(r, o, p) : r \in {FeedRoutes[i] : i \in 1..Len(FeedRoutes)},
                     o \in {"I", "R"}, p \in StopPatterns}

Feeds == UNION {[1..n -> FeedTrips] : n \in 1..MaxTrips}

\* the coordinates of the stops of the feed: a stop outside the domain has none
\* (stop_lat or stop_lon is None)
FeedCoords == {LinePos, [s \in {"A", "C", "D", "E"} |-> LinePos[s]]}

\* the visits of the trips of one route, in the order of the two loops "for trip
\* in trips" and "for i in range(len(stop_times))"
Visits(feed, route_id) ==
    LET F[k \in 0..Len(feed)] ==
            IF k = 0 THEN <<>>
            ELSE IF feed[k].route_id # route_id THEN F[k - 1]
                 ELSE F[k - 1] \o
                      [i \in 1..Len(feed[k].stop_times) |->
                          [stop_id |-> feed[k].stop_times[i].stop_id,
                           sequence |-> feed[k].stop_times[i].stop_sequence,
                           orientation |-> feed[k].orientation,
                           last |-> i = Len(feed[k].stop_times)]]
    IN F[Len(feed)]

\* the entry written at self.route_stops[route.route_id][stop_id]
StopEntry(route_id, visit, pos) ==
    [route_id |-> route_id, stop_id |-> visit.stop_id,
     coordinates |-> pos[visit.stop_id],
     orientation |-> IF visit.orientation = "I" THEN "round" ELSE "return",
     sequence |-> visit.sequence]

\* the body of "for i in range(len(stop_times))" on st = [keyed, stops]: keyed
\* says that stop_coords has the key of the route, stops is
\* self.route_stops[route_id] (stop_coords[route_id] has the same keys)
RecordVisit(st, route_id, visit, pos) ==
    IF visit.last THEN st
    ELSE IF visit.stop_id \notin DOMAIN st.stops /\ visit.stop_id \in DOMAIN pos
         THEN [keyed |-> TRUE, stops |-> Put(st.stops, visit.stop_id,
                                              StopEntry(route_id, visit, pos))]
         ELSE [keyed |-> TRUE, stops |-> st.stops]

\* the stops of the trips of a route with direction_id = dir
DirectionStops(feed, route_id, dir) ==
    UNION {{feed[k].stop_times[i].stop_id : i \in 1..Len(feed[k].stop_times)} :
              k \in {x \in 1..Len(feed) : /\ feed[x].route_id = route_id
                                           /\ (feed[x].direction_id = 0) = (dir = 0)}}

\* the two loops over round_trip_stops and return_trip_stops: the orientation of
\* the recorded stops, the return trips last
Reorient(stops, round_trip_stops, return_trip_stops) ==
    [s \in DOMAIN stops |->
        IF s \in return_trip_stops THEN [stops[s] EXCEPT !.orientation = "return"]
        ELSE IF s \in round_trip_stops THEN [stops[s] EXCEPT !.orientation = "round"]
        ELSE stops[s]]

\* one pass of "for route in sched.routes": [raised, stops]
LoadRoute(feed, route_id, pos) ==
    LET visits == Visits(feed, route_id)
        F[k \in 0..Len(visits)] ==
            IF k = 0 THEN [keyed |-> FALSE, stops |-> EmptyDict]
            ELSE RecordVisit(F[k - 1], route_id, visits[k], pos)
        st == F[Len(visits)]
        round_trip_stops == DirectionStops(feed, route_id, 0)
        return_trip_stops == DirectionStops(feed, route_id, 1)
    IN IF ~st.keyed /\ round_trip_stops \cup return_trip_stops # {}
       THEN [raised |-> "KeyError", stops |-> st.stops]
       ELSE [raised |-> "",
             stops |-> Reorient(st.stops, round_trip_stops, return_trip_stops)]

\* get_gtfs_data: [raised, route_stops]; a route is a key of route_stops once a
\* stop of it is recorded
get_gtfs_data(routes, feed, pos) ==
    LET F[k \in 0..Len(routes)] ==
            IF k = 0 THEN [raised |-> "", route_stops |-> <<>>]
            ELSE IF F[k - 1].raised # "" THEN F[k - 1]
                 ELSE LET r == LoadRoute(feed, routes[k], pos)
                      IN [raised |-> r.raised,
                          route_stops |->
                              IF DOMAIN r.stops = {} THEN F[k - 1].route_stops
                              ELSE Append(F[k - 1].route_stops,
                                          [route_id |-> routes[k], stops |-> r.stops])]
    IN F[Len(routes)]

InitTimetable ==
    /\ route_stops = <<>>
    /\ stop_pos \in FeedCoords
    /\ transfer_manager = <<>>
    /\ max_walking_km = DefaultMaxWalkingDistance
    /\ max_transfers = 0
    /\ pc = "feed"
    /\ NoQuery /\ NoScratch /\ NoRanking
    /\ baseline = <<>>
    /\ NoFindJourney
    /\ nearby = <<>> /\ max_distance_km = 0 /\ added = <<>> /\ planned = <<>>
    /\ runs = <<>> /\ built = <<>>
    /\ trips \in Feeds

\* self.graphs, self.route_stops, self.special_dates = self.get_gtfs_data()
GetGtfsData ==
    /\ pc = "feed"
    /\ LET data == get_gtfs_data(FeedRoutes, trips, stop_pos)
       IN /\ route_stops' = data.route_stops
          /\ raised' = data.raised
          /\ pc' = IF data.raised = "" THEN "loaded" ELSE "raised"
    /\ UNCHANGED <<stop_pos, transfer_manager, max_walking_km, max_transfers,
                   query_vars, scratch_vars, baseline, rank_vars, origin_coords,
                   destination_coords, origin_stops, destination_stops, scans,
                   lib_vars>>

NextTimetable == GetGtfsData

SpecTimetable == InitTimetable /\ [][NextTimetable]_vars

----------------------------------------------------------------------------
(* Reference: the paths of the timetable, independent of the scan *)

\* labels <<stop, route, route changes, time>>: one ride further from the labels of L
Extend(L, rs, tmopt, K) ==
    {<<s, rs[i].route_id, l[3] + (IF l[2] # NoRoute /\ l[2] # rs[i].route_id THEN 1 ELSE 0),
       l[4] + (IF l[2] # NoRoute /\ l[2] # rs[i].route_id THEN transfer_time ELSE 0)
            + SecondsPerSequenceStep * (rs[i].stops[s] - rs[i].stops[l[1]])>> :
        <<l, i, s>> \in
            {x \in L \X (1..Len(rs)) \X DOMAIN stop_pos :
                LET l == x[1]
                    r == rs[x[2]]
                    change == l[2] # NoRoute /\ l[2] # r.route_id
                IN /\ l[1] \in DOMAIN r.stops
                   /\ x[3] \in DOMAIN r.stops
                   /\ r.stops[x[3]] > r.stops[l[1]]
                   /\ change => /\ l[3] + 1 <= K
                                /\ _is_transfer_viable(tmopt, l[2], l[1], r.route_id)}}

\* the labels not beaten in time by a label of the same stop, route and count
Undominated(L) ==
    {l \in L : ~\E m \in L : m[1] = l[1] /\ m[2] = l[2] /\ m[3] = l[3] /\ m[4] < l[4]}

RECURSIVE PathLabels(_, _, _, _)
PathLabels(L, rs, tmopt, K) ==
    LET M == Undominated(L \cup Extend(L, rs, tmopt, K))
    IN IF M = L THEN L ELSE PathLabels(M, rs, tmopt, K)

\* the arrival times at `destination` over all paths of at least one ride from
\* `origin` at `start` that change route at most K times, each change viable
PathArrivals(rs, tmopt, origin, destination, start, K) ==
    {l[4] : l \in {x \in PathLabels({<<origin, NoRoute, 0, start>>}, rs, tmopt, K) :
                      x[1] = destination /\ x[2] # NoRoute}}

SetMin(S) == CHOOSE x \in S : \A y \in S : x <= y

\* the time at which a journey reaches its destination stop: the arrival of
\* its last transit leg
ArrivalAtStop(journey) == journey.segments[Len(journey.segments) - 1].arrival_time

Returned == pc = "done"

----------------------------------------------------------------------------
(* Claims *)

\* C1: whenever some path from origin to destination boards routes in
\* increasing stop-sequence order with at most max_transfers viable route
\* changes, the scan returns a journey and its first journey reaches the
\* destination stop at the minimum arrival time of those paths.
C1_EarliestArrival ==
    (Returned /\ origin_stop # destination_stop) =>
        LET best == PathArrivals(route_stops, transfer_manager, origin_stop,
                                 destination_stop, start_time, max_transfers)
        IN best # {} =>
              /\ Len(journeys_found) > 0
              /\ ArrivalAtStop(journeys_found[1]) = SetMin(best)

\* C2: every journey returned by the scan has number_of_transfers <= max_transfers.
C2_TransferBound ==
    Returned =>
        \A i \in 1..Len(journeys_found) :
            journeys_found[i].number_of_transfers <= max_transfers

\* C3: with max_transfers = K + 1 the scan finds a journey whenever it found
\* one with max_transfers = K, and its earliest arrival at the destination is
\* not later.
C3_RelaxedNotLater ==
    (Returned /\ baseline # <<>> /\ Len(baseline[1].journeys) > 0) =>
        /\ Len(journeys_found) > 0
        /\ ArrivalAtStop(journeys_found[1]) <= ArrivalAtStop(baseline[1].journeys[1])

\* the segments of a journey between its two walking legs
Legs(journey) == SubSeq(journey.segments, 2, Len(journey.segments) - 1)

EndToEndQuery ==
    /\ route_stops = EndToEndWorld.rs
    /\ transfer_manager = EndToEndWorld.tm
    /\ origin_stop = "A" /\ destination_stop = "E"
    /\ max_transfers = 1

\* C4: on the end-to-end timetable (R1: A, B, C; R2: D, C, E; one transfer
\* (R1, C) -> (R2, C) of distance 0, walking time 0, min transfer time 120) the
\* scan from A to E with max_transfers = 1 returns exactly one journey: R1,
\* then a Transfer leg of 120 s at C from R1 to R2, then R2.
C4_EndToEnd ==
    (Returned /\ EndToEndQuery) =>
        /\ Len(journeys_found) = 1
        /\ LET legs == Legs(journeys_found[1])
           IN /\ Len(legs) = 3
              /\ legs[1].type = "transit" /\ legs[1].route_id = "R1"
              /\ legs[1].from_stop = "A" /\ legs[1].to_stop = "C"
              /\ legs[2].type = "transfer" /\ legs[2].at_stop = "C"
              /\ legs[2].from_route = "R1" /\ legs[2].to_route = "R2"
              /\ legs[2].duration = 120
              /\ legs[3].type = "transit" /\ legs[3].route_id = "R2"
              /\ legs[3].from_stop = "C" /\ legs[3].to_stop = "E"
              /\ legs[3].departure_time = legs[1].arrival_time + 120

C4_Witness ==
    /\ Returned /\ EndToEndQuery
    /\ Len(journeys_found) = 1
    /\ journeys_found[1].number_of_transfers = 1

\* the Transfer legs of the journeys returned
TransferLegs ==
    UNION {{journeys_found[i].segments[k] :
              k \in {x \in 1..Len(journeys_found[i].segments) :
                        journeys_found[i].segments[x].type = "transfer"}} :
           i \in 1..Len(journeys_found)}

\* C5: with a transfer manager configured, every Transfer leg of a returned
\* journey is backed by a registered, viable TransferConnection from
\* (from_route, at_stop) to to_route.
C5_TransferLegsRegistered ==
    (Returned /\ Len(transfer_manager) > 0) =>
        \A leg \in TransferLegs :
            \E x \in Registered(transfer_manager[1]) :
                /\ x.from_route_id = leg.from_route
                /\ x.from_stop_id = leg.at_stop
                /\ x.to_route_id = leg.to_route
                /\ is_viable(x)

\* the stops whose predecessor entry the step writes
Relaxed == {s \in DOMAIN in_connection' :
               s \notin DOMAIN in_connection \/ in_connection'[s] # in_connection[s]}

\* the step explores the routes at the popped stop and boards route r there,
\* having arrived on another route
ChangesTo(r) ==
    /\ pc = "scan" /\ pc' = "scan"
    /\ last_pop' # last_pop
    /\ last_pop'[3] # NoRoute /\ last_pop'[3] # r
    /\ \E s \in Relaxed : in_connection'[s][1] = last_pop'[2] /\ in_connection'[s][2] = r

AllRoutes == {RouteNames[i] : i \in 1..Len(RouteNames)}

\* C6: with a transfer manager configured, the scan changes from route R to
\* another route R' at stop S only when the registry holds a viable
\* TransferConnection from (R, S) to (R', S).
C6_ChangeNeedsSameStopTransfer ==
    [][\A r \in AllRoutes :
          (Len(transfer_manager) > 0 /\ ChangesTo(r)) =>
              \E x \in Registered(transfer_manager[1]) :
                  /\ x.from_route_id = last_pop'[3]
                  /\ x.from_stop_id = last_pop'[2]
                  /\ x.to_route_id = r
                  /\ x.to_stop_id = last_pop'[2]
                  /\ is_viable(x)]_vars

\* C7: when the scan arrives at S at time T on route R and boards another
\* route R' through a viable TransferConnection x, the boarding time it uses
\* for R' is at least T + x.min_transfer_time.
C7_BoardAfterMinTransferTime ==
    [][\A r \in AllRoutes :
          (Len(transfer_manager) > 0 /\ ChangesTo(r)) =>
              \A x \in Registered(transfer_manager[1]) :
                  (/\ x.from_route_id = last_pop'[3]
                   /\ x.from_stop_id = last_pop'[2]
                   /\ x.to_route_id = r
                   /\ is_viable(x)) =>
                      \A s \in Relaxed :
                          (in_connection'[s][1] = last_pop'[2] /\ in_connection'[s][2] = r)
                              => in_connection'[s][3] >= last_pop'[1] + x.min_transfer_time]_vars

RanksBefore(self, other) ==
    \/ self.total_duration < other.total_duration
    \/ /\ self.total_duration = other.total_duration
       /\ self.number_of_transfers < other.number_of_transfers

\* the route sequences of a list of journeys
Sequences_(list) == {TransitRoutes(list[i]) : i \in 1..Len(list)}

\* C9: no two journeys returned have the same ordered sequence of transit
\* route ids, and for each route sequence of the input the one survivor of the
\* filter is the first, best-ranked journey with that sequence.
C9_OnePerRouteSequence ==
    pc = "returned" =>
        /\ \A i, j \in 1..Len(returned_journeys) :
              TransitRoutes(returned_journeys[i]) = TransitRoutes(returned_journeys[j])
                  => i = j
        /\ \A i, j \in 1..Len(unique_journeys) :
              TransitRoutes(unique_journeys[i]) = TransitRoutes(unique_journeys[j])
                  => i = j
        /\ Sequences_(unique_journeys) = Sequences_(all_journeys)
        /\ \A i \in 1..Len(unique_journeys) :
              LET same == {k \in 1..Len(all_journeys) :
                              TransitRoutes(all_journeys[k]) = TransitRoutes(unique_journeys[i])}
                  first == CHOOSE k \in same : \A m \in same : k <= m
              IN /\ unique_journeys[i] = all_journeys[first]
                 /\ \A k \in same : ~RanksBefore(all_journeys[k], unique_journeys[i])
        /\ \A i \in 1..Len(returned_journeys) : returned_journeys[i] = unique_journeys[i]

C9_Witness ==
    /\ pc = "returned"
    /\ Len(all_journeys) = 3
    /\ Len(unique_journeys) = 2
    /\ TransitRoutes(all_journeys[1]) = TransitRoutes(all_journeys[3])
    /\ TransitRoutes(all_journeys[1]) # TransitRoutes(all_journeys[2])
    /\ Len(returned_journeys) = 2

OrderedBestFirst(list) ==
    \A i, j \in 1..Len(list) : i < j => ~RanksBefore(list[j], list[i])

ContainsBest ==
    Len(all_journeys) > 0 =>
        \E i \in 1..Len(returned_journeys) :
            \A k \in 1..Len(all_journeys) :
                ~RanksBefore(all_journeys[k], returned_journeys[i])

StopsWithin(location) ==
    {st \in DOMAIN stop_pos : Abs(stop_pos[st] - location) <= max_walking_km}

FindJourneyEnded == pc \in {"returned", "raised"}

\* C11: when the proximity lookup yields at least one origin stop and one
\* destination stop, find_journey completes without raising and has run one
\* scan per (origin stop, destination stop) pair, each started at
\* departure_time plus the walking time to the origin stop.
C11_OneScanPerPair ==
    (FindJourneyEnded /\ StopsWithin(origin_coords) # {}
                      /\ StopsWithin(destination_coords) # {}) =>
        /\ raised = ""
        /\ Len(scans) = Len(origin_stops) * Len(destination_stops)
        /\ \A i \in 1..Len(origin_stops), j \in 1..Len(destination_stops) :
              \E k \in 1..Len(scans) :
                  scans[k] = <<origin_stops[i][1], destination_stops[j][1],
                               actual_departure + WalkSeconds(origin_stops[i][2])>>

\* C12: when no stop lies within max_walking_distance_km of the origin, or
\* none within it of the destination, find_journey returns an empty list,
\* raises nothing and runs no scan.
C12_NoStopNoScan ==
    (pc \in {"pairs", "scan", "returned", "raised"}
        /\ (StopsWithin(origin_coords) = {} \/ StopsWithin(destination_coords) = {})) =>
        /\ pc = "returned"
        /\ raised = ""
        /\ returned_journeys = <<>>
        /\ scans = <<>>
        /\ NoScratch

C12_Witness ==
    /\ pc = "returned"
    /\ StopsWithin(origin_coords) # {}
    /\ StopsWithin(destination_coords) = {}
    /\ origin_stops # <<>>
    /\ returned_journeys = <<>> /\ raised = ""

\* no path of the timetable reaches the destination within the transfer bound
Unreachable ==
    PathArrivals(route_stops, transfer_manager, origin_stop, destination_stop,
                 start_time, max_transfers) = {}

\* C13: a scan whose destination stop is unreachable within the transfer
\* bound, or whose origin stop is served by no route or is the last stop of
\* every route serving it, ends returning an empty list of journeys.
C13_UnreachableReturnsEmpty ==
    (Returned /\ origin_stop # destination_stop /\ Unreachable) =>
        journeys_found = <<>>

\* the transit legs of a journey, in order
TransitLegs(journey) == SelectSeq(journey.segments, LAMBDA seg : seg.type = "transit")

\* the transit legs run from the origin stop to the destination stop, each
\* starting where the previous one ended, and every transfer leg sits between
\* two transit legs at the stop they share
ConnectedChain(journey) ==
    LET legs == TransitLegs(journey)
        segs == journey.segments
    IN /\ Len(legs) > 0
       /\ legs[1].from_stop = origin_stop
       /\ legs[Len(legs)].to_stop = destination_stop
       /\ \A i \in 1..(Len(legs) - 1) : legs[i + 1].from_stop = legs[i].to_stop
       /\ \A k \in 1..Len(segs) :
             segs[k].type = "transfer" =>
                 /\ 1 < k /\ k < Len(segs)
                 /\ segs[k - 1].type = "transit" /\ segs[k + 1].type = "transit"
                 /\ segs[k].at_stop = segs[k - 1].to_stop
                 /\ segs[k].at_stop = segs[k + 1].from_stop

\* C14: in every journey the scan has found, the transit legs form a
\* connected chain from the origin stop to the destination stop and every
\* transfer leg sits at the stop shared by its two neighbours.
C14_ConnectedChain ==
    pc \in {"scan", "done"} =>
        \A i \in 1..Len(journeys_found) : ConnectedChain(journeys_found[i])

C14_Witness ==
    /\ Returned
    /\ \E i \in 1..Len(journeys_found) :
          /\ Len(TransitLegs(journeys_found[i])) = 3
          /\ journeys_found[i].number_of_transfers = 2
          /\ ConnectedChain(journeys_found[i])

\* C15: no transfer registered by compute_all_transfers joins a route to
\* itself, and none is longer than the max_distance_km of the discovery.
C15_DistinctRoutesWithinRadius ==
    pc = "discovered" =>
        \A x \in Registered(transfer_manager[1]) :
            /\ x.from_route_id # x.to_route_id
            /\ x.walking_distance_km <= max_distance_km
            /\ x.walking_distance_km = Abs(stop_pos[x.to_stop_id] - stop_pos[x.from_stop_id])

C15_Witness ==
    /\ pc = "discovered"
    /\ max_distance_km = 500
    /\ \E x \in Registered(transfer_manager[1]) : x.walking_distance_km = 500
    /\ \E i, j \in 1..Len(route_stops) :
          /\ i # j
          /\ \E a \in DOMAIN route_stops[i].stops, b \in DOMAIN route_stops[i].stops :
                a # b /\ Abs(stop_pos[a] - stop_pos[b]) <= 500
          /\ \E a \in DOMAIN route_stops[i].stops, b \in DOMAIN route_stops[j].stops :
                a # b /\ Abs(stop_pos[a] - stop_pos[b]) > 500

\* the stops of route j other than s within the discovery radius of s
Candidates(j, s) ==
    {t \in DOMAIN route_stops[j].stops :
        t # s /\ Abs(stop_pos[t] - stop_pos[s]) <= max_distance_km}

\* the transfers registered from (route i, stop s) to route j
RegisteredTo(i, s, j) ==
    SelectSeq(get_transfers_from(transfer_manager[1], route_stops[i].route_id, s),
              LAMBDA x : x.to_route_id = route_stops[j].route_id)

\* C16: for every (from_route, from_stop) of the timetable and every other
\* route R' with n >= 1 stops other than from_stop within the discovery radius,
\* compute_all_transfers registers transfers from (from_route, from_stop) to
\* exactly the min(3, n) nearest of those stops of R'.
C16_NearestThreePerRoute ==
    pc = "discovered" =>
        \A i, j \in 1..Len(route_stops) : \A s \in DOMAIN route_stops[i].stops :
            (i # j /\ Candidates(j, s) # {}) =>
                LET cand == Candidates(j, s)
                    reg == RegisteredTo(i, s, j)
                    to == {reg[k].to_stop_id : k \in 1..Len(reg)}
                IN /\ to \subseteq cand
                   /\ Len(reg) = Cardinality(to)
                   /\ Cardinality(to) = Min(3, Cardinality(cand))
                   /\ \A t \in to, u \in cand \ to :
                         Abs(stop_pos[t] - stop_pos[s]) <= Abs(stop_pos[u] - stop_pos[s])

\* the route and stop ids the registry is asked about, R9 and Z never added
AskedRoutes == {"R1", "R2", "R3", "R9"}
AskedStops == {"A", "B", "Z"}

\* C17: after any sequence of add_transfer calls, get_transfers_from(r, s) is
\* the list of the transfers added with from-route r and from-stop s in
\* insertion order (empty for a key never added), count_transfers() is the
\* number of calls, and get_transfers_to(r) lists each transfer added with
\* to_route_id r once, with its own from-route and from-stop.
C17_RegistryMatchesCalls ==
    pc = "registry" =>
        LET tm == transfer_manager[1]
        IN /\ count_transfers(tm) = Len(added)
           /\ \A r \in AskedRoutes, s \in AskedStops :
                 get_transfers_from(tm, r, s) =
                     SelectSeq(added, LAMBDA t : t.from_route_id = r /\ t.from_stop_id = s)
           /\ \A r \in AskedRoutes :
                 LET to == SelectSeq(added, LAMBDA t : t.to_route_id = r)
                 IN get_transfers_to(tm, r) =
                        [k \in 1..Len(to) |->
                            <<to[k].from_route_id, to[k].from_stop_id, to[k]>>]

C17_Witness ==
    /\ pc = "registry"
    /\ Len(added) = 2
    /\ added[1] # added[2]
    /\ added[1].from_stop_id = added[2].from_stop_id
    /\ added[1].to_route_id # added[2].to_route_id
    /\ Len(get_transfers_from(transfer_manager[1], "R1", added[1].from_stop_id)) = 2
    /\ Len(get_transfers_to(transfer_manager[1], "R3")) = 1

\* C18 helpers: the totals of a list of legs, counted from the legs themselves
LegsOfType(legs, kind, type) == {i \in 1..Len(legs) : legs[i][kind] = type}
RECURSIVE SumOf(_, _, _)
SumOf(legs, idx, field) ==
    IF idx = {} THEN 0
    ELSE LET i == CHOOSE x \in idx : TRUE
         IN legs[i][field] + SumOf(legs, idx \ {i}, field)

\* C18: for every journey a planner returns, total_duration is the end of the
\* last leg minus the start of the first (and arrival_time minus
\* departure_time where the journey carries them), number_of_transfers is the
\* number of transfer legs and total_walking_distance the sum of the distances
\* of the walk legs.
C18_DerivedTotals ==
    (Len(planned) = 1 /\ Len(planned[1].journey) = 1) =>
        LET j == planned[1].journey[1]
        IN IF planned[1].planner = "ConnectionScanAlgorithm"
           THEN LET legs == j.segments
                IN /\ j.total_duration = legs[Len(legs)].end_time - legs[1].start_time
                   /\ j.total_duration = j.arrival_time - j.departure_time
                   /\ j.number_of_transfers = Cardinality(LegsOfType(legs, "type", "transfer"))
                   /\ j.total_walking_distance =
                          SumOf(legs, LegsOfType(legs, "type", "walk"), "distance_km")
           ELSE IF planned[1].planner = "JourneyPlanner"
           THEN LET legs == j.legs
                IN /\ j.total_duration = legs[Len(legs)].end_time - legs[1].start_time
                   /\ j.number_of_transfers = Cardinality(LegsOfType(legs, "leg_type", "transfer"))
                   /\ j.total_walking_distance =
                          SumOf(legs, LegsOfType(legs, "leg_type", "walk"), "walking_distance")
           ELSE LET legs == j.legs
                IN /\ total_duration(j) = legs[Len(legs)].end_time - legs[1].start_time
                   /\ number_of_transfers(j) = Cardinality(LegsOfType(legs, "leg_type", "transfer"))
                   /\ total_walking_distance(j) =
                          SumOf(legs, LegsOfType(legs, "leg_type", "walk"), "distance")

\* a journey of JourneyPlanner with both walks longer than nothing
C18_Witness ==
    /\ Len(planned) = 1
    /\ planned[1].planner = "JourneyPlanner"
    /\ Len(planned[1].journey) = 1
    /\ planned[1].journey[1].total_walking_distance > 0
    /\ Len(planned[1].journey[1].legs) = 3
    /\ planned[1].journey[1].legs[1].walking_distance > 0
    /\ planned[1].journey[1].legs[3].walking_distance > 0

\* C19: get_nearby_stops(point, margin_km, max_stops) returns the max_stops
\* nearest of the stops within margin_km of the point (all of them if fewer),
\* as (stop, distance) pairs in ascending order of distance, and never a stop
\* farther than margin_km.
C19_NearestWithinMargin ==
    Len(nearby) = 1 =>
        LET call == nearby[1]
            result == call.result
            dist(s) == haversine(call.location, stop_pos[s])
            within == {s \in DOMAIN stop_pos : dist(s) <= call.margin_km}
            returned == {result[i][1] : i \in 1..Len(result)}
        IN /\ Len(result) = Min(call.max_stops, Cardinality(within))
           /\ Cardinality(returned) = Len(result)
           /\ returned \subseteq within
           /\ \A i \in 1..Len(result) : result[i] = <<result[i][1], dist(result[i][1])>>
           /\ \A i \in 1..(Len(result) - 1) : result[i][2] <= result[i + 1][2]
           /\ \A s \in within \ returned, i \in 1..Len(result) : result[i][2] <= dist(s)

\* a call that cuts the list: more stops within the margin than asked for, and
\* a stop beyond the margin
C19_Witness ==
    /\ Len(nearby) = 1
    /\ Len(nearby[1].result) = 2
    /\ nearby[1].max_stops = 2
    /\ nearby[1].result[1][2] < nearby[1].result[2][2]
    /\ Cardinality({s \in DOMAIN stop_pos :
                       haversine(nearby[1].location, stop_pos[s]) <= nearby[1].margin_km}) > 2
    /\ \E s \in DOMAIN stop_pos :
           haversine(nearby[1].location, stop_pos[s]) > nearby[1].margin_km

\* C20: after the timetable is built, for every route R and every stop with
\* valid coordinates that a trip of R visits (the first visit of the trip
\* through the last), route_stops[R] has an entry for the stop, with a
\* sequence at which a trip of R visits it, its coordinates and an orientation.
C20_EveryVisitedStopRecorded ==
    pc = "loaded" =>
        \A k \in 1..Len(trips) : \A i \in 1..Len(trips[k].stop_times) :
            LET R == trips[k].route_id
                s == trips[k].stop_times[i].stop_id
            IN s \in DOMAIN stop_pos =>
                  \E x \in 1..Len(route_stops) :
                      /\ route_stops[x].route_id = R
                      /\ s \in DOMAIN route_stops[x].stops
                      /\ route_stops[x].stops[s].coordinates = stop_pos[s]
                      /\ route_stops[x].stops[s].orientation \in {"round", "return"}
                      /\ \E v \in 1..Len(Visits(trips, R)) :
                            /\ Visits(trips, R)[v].stop_id = s
                            /\ Visits(trips, R)[v].sequence = route_stops[x].stops[s].sequence

\* C21: JourneyPlannerV2.plan_journey with use_csa=True returns the conversion
\* of the first journey of find_journey when find_journey returns a non-empty
\* list, and the outcome of the simplified search only when find_journey
\* returns an empty list; with use_csa=False the connection scan is never run.
C21_FullSearchThenFallback ==
    Len(planned) = 1 =>
        LET out == planned[1].outcome
        IN /\ out.use_csa /\ Len(out.csa_journeys) > 0 =>
                 out.journey = <<_convert_csa_journey_to_legacy(out.csa_journeys[1])>>
           /\ out.use_csa /\ out.fallback =>
                 out.find_journey = "returned" /\ out.csa_journeys = <<>>
           /\ ~out.use_csa => out.find_journey = "not called" /\ out.scans = 0

\* C22: a scan leaves route_stops, the TransferManager and the engine's
\* attributes as they were when it was called, and whatever the interleaving of
\* two scans on one engine, each returns what it returns when run alone.
C22_ScansDoNotInterfere ==
    \A i \in DOMAIN runs :
        /\ runs[i].engine = [route_stops |-> route_stops,
                             transfer_manager |-> transfer_manager,
                             max_transfers |-> max_transfers]
        /\ runs[i].returned =>
              runs[i].st.jf = _connection_scan(route_stops, transfer_manager, max_transfers,
                                               runs[i].origin, runs[i].destination,
                                               runs[i].start, runs[i].owd, runs[i].dwd,
                                               runs[i].departure)

\* both scans have returned, one of them with a journey, after the other ran
\* passes of its own in between
C22_Witness ==
    /\ Len(runs) = 2
    /\ runs[1].returned /\ runs[2].returned
    /\ Len(runs[1].st.jf) > 0
    /\ Len(runs[2].st.jf) > 0
    /\ runs[1].st.jf # runs[2].st.jf

\* a configuration the constructors are meant for
ValidConfiguration(object) ==
    /\ object.max_walking_km >= 0
    /\ object.walking_speed > 0
    /\ object.max_transfers >= 0

\* C23: a planner or an engine given a negative maximum walking distance, a
\* walking speed of zero or less, or a negative max_transfers is not
\* constructed: it answers no query and no query of it ends in an error.
C23_InvalidConfigurationRejected ==
    (Len(built) = 1 /\ ~ValidConfiguration(built[1])) =>
        /\ ~built[1].constructed
        /\ built[1].query = <<>>

\* C24: every scan that is started returns, whatever max_transfers is (more
\* than the number of routes included): the loop ends because the queue runs
\* empty or three journeys have been found.
C24_ScanTerminates ==
    (Len(runs) = 1 /\ ~runs[1].returned) ~> (Len(runs) = 1 /\ runs[1].returned)

\* a scan with max_transfers above the number of routes has returned after
\* expanding routes, its queue empty
C24_Witness ==
    /\ Len(runs) = 1
    /\ runs[1].returned
    /\ max_transfers > Len(route_stops)
    /\ Cardinality(runs[1].st.vr) >= 3
    /\ runs[1].st.q = {}
    /\ Len(runs[1].st.jf) > 0

\* the entry the next pass of the loop pops is one whose routes are explored
ExploringPass ==
    /\ pc = "scan" /\ queue # {}
    /\ HeapMin(queue)[2] # destination_stop
    /\ HeapMin(queue)[4] <= max_transfers

\* C25: in the pass that pops <<T, S, R, n>>, the route R itself, and any
\* route when the entry is the origin's, is boarded at T, whatever routes
\* serve S and in whatever order: the 120 s buffer goes to no route but the
\* one transferred to.
C25_BoardingTimeIsPopTime ==
    ExploringPass =>
        LET e == HeapMin(queue)
            calls == BoardingTimes(visited_routes, route_stops, transfer_manager,
                                   e[2], e[3], e[1])
        IN \A k \in 1..Len(calls) :
              (e[3] = NoRoute \/ calls[k][1] = e[3]) => calls[k][2] = e[1]

\* C26: around every Transfer leg of a returned journey, the transit leg that
\* follows departs exactly the Transfer leg's duration (120 s) after the
\* transit leg before it arrives.
C26_TransferLegSpansTheGap ==
    Returned =>
        \A i \in 1..Len(journeys_found) :
            LET segments == journeys_found[i].segments
            IN \A k \in 2..(Len(segments) - 1) :
                  segments[k].type = "transfer" =>
                      /\ segments[k].duration = transfer_time
                      /\ segments[k + 1].departure_time - segments[k - 1].arrival_time
                            = segments[k].duration

\* C27: a scan holds at most three journeys; no two of them have the same legs
\* and the same arrival time; and the journey built when the destination is
\* popped with arrival time T has its last transit leg arriving at T.
C27_ThreeDistinctJourneys ==
    pc \in {"scan", "done"} =>
        /\ Len(journeys_found) <= MaxJourneysPerScan
        /\ \A i, j \in 1..Len(journeys_found) :
              (/\ journeys_found[i].segments = journeys_found[j].segments
               /\ journeys_found[i].arrival_time = journeys_found[j].arrival_time) => i = j
        /\ (/\ last_pop # <<>>
            /\ last_pop[2] = destination_stop
            /\ Len(_reconstruct_journey(origin_stop, destination_stop, in_connection,
                                        origin_walk_dist, dest_walk_dist,
                                        actual_departure)) > 0) =>
              LET segments == journeys_found[Len(journeys_found)].segments
              IN segments[Len(segments) - 1].arrival_time = last_pop[1]

\* the stops a list of (stop_id, distance) pairs names
StopIds(stops) == {stops[i][1] : i \in 1..Len(stops)}

\* the routes of the timetable that serve the stop
RoutesThrough(stop) ==
    {route_stops[x].route_id : x \in {y \in 1..Len(route_stops) :
                                         stop \in DOMAIN route_stops[y].stops}}

\* C28: a journey JourneyPlanner.plan_journey returns has three legs, walk,
\* transit, walk, each starting when the one before ends, the first at
\* departure_time; the transit leg boards at the candidate stop nearest the
\* origin, on a route serving both of its stops, and alights at a destination
\* candidate. When no route through the nearest origin candidate serves a
\* destination candidate the result is None, whatever the other origin
\* candidates offer.
C28_DirectJourneyShape ==
    (Len(planned) = 1 /\ planned[1].planner = "JourneyPlanner") =>
        LET call == planned[1]
            o_stops == get_nearby_stops(stop_pos, call.origin, max_walking_km, PlanMaxStops)
            d_stops == get_nearby_stops(stop_pos, call.destination, max_walking_km,
                                        PlanMaxStops)
        IN /\ Len(call.journey) = 1 =>
                 LET legs == call.journey[1].legs
                 IN /\ Len(legs) = 3
                    /\ legs[1].leg_type = "walk"
                    /\ legs[2].leg_type = "transit"
                    /\ legs[3].leg_type = "walk"
                    /\ legs[1].start_time = call.departure_time
                    /\ legs[2].start_time = legs[1].end_time
                    /\ legs[3].start_time = legs[2].end_time
                    /\ \A k \in 1..3 : legs[k].end_time >= legs[k].start_time
                    /\ legs[2].from_stop \in StopIds(o_stops)
                    /\ \A i \in 1..Len(o_stops) :
                          o_stops[i][1] = legs[2].from_stop =>
                              \A j \in 1..Len(o_stops) : o_stops[i][2] <= o_stops[j][2]
                    /\ legs[2].to_stop \in StopIds(d_stops)
                    /\ legs[2].route_id \in RoutesThrough(legs[2].from_stop)
                                               \cap RoutesThrough(legs[2].to_stop)
           /\ (/\ Len(o_stops) > 0
               /\ \A d \in StopIds(d_stops) :
                     RoutesThrough(o_stops[1][1]) \cap RoutesThrough(d) = {})
                 => call.journey = <<>>

\* a journey was returned for an origin with two candidate stops or more
C28_Witness ==
    /\ Len(planned) = 1
    /\ planned[1].planner = "JourneyPlanner"
    /\ Len(planned[1].journey) = 1
    /\ planned[1].journey[1].legs[2].from_stop # planned[1].journey[1].legs[2].to_stop
    /\ Len(get_nearby_stops(stop_pos, planned[1].origin, max_walking_km, PlanMaxStops)) >= 2

\* the stops met walking the predecessor entries back from x, x included;
\* n bounds the walk
RECURSIVE Ancestors(_, _)
Ancestors(x, n) ==
    IF n = 0 \/ x \notin DOMAIN in_connection THEN {x}
    ELSE {x} \cup Ancestors(in_connection[x][1], n - 1)

\* the tables of a scan agree with each other
LabelsConsistent ==
    pc \in {"scan", "done"} =>
        /\ origin_stop \in DOMAIN earliest_arrival
        /\ earliest_arrival[origin_stop] = start_time
        /\ origin_stop \notin DOMAIN in_connection
        /\ \A x \in DOMAIN in_connection :
              LET S == in_connection[x][1]
                  dep == in_connection[x][3]
                  arr == in_connection[x][4]
              IN /\ x \in DOMAIN earliest_arrival
                 /\ arr = earliest_arrival[x]
                 /\ dep < arr
                 /\ S \in DOMAIN earliest_arrival
                 /\ earliest_arrival[S] <= dep
                 /\ origin_stop \in Ancestors(x, Cardinality(DOMAIN in_connection))
                 /\ x \notin Ancestors(S, Cardinality(DOMAIN in_connection))

\* C29: in every state of a scan earliest_arrival[origin] is the start time
\* and the origin has no predecessor entry; each predecessor entry
\* (S, route, dep, arr) of a stop X has arr = earliest_arrival[X], dep < arr and
\* earliest_arrival[S] <= dep, so that the chains of predecessors have no cycle
\* and end at the origin; and the earliest arrival of a stop never increases
\* during the scan.
C29_LabelInvariants ==
    /\ []LabelsConsistent
    /\ [][pc = "scan" =>
             \A x \in DOMAIN earliest_arrival :
                 /\ x \in DOMAIN earliest_arrival'
                 /\ earliest_arrival'[x] <= earliest_arrival[x]]_vars

\* a scan that has found a journey, with a stop two hops from the origin that
\* was boarded later than its predecessor was reached
C29_Witness ==
    /\ pc = "scan"
    /\ \E x \in DOMAIN in_connection :
          /\ in_connection[x][1] \in DOMAIN in_connection
          /\ in_connection[x][3] > earliest_arrival[in_connection[x][1]]
    /\ Len(journeys_found) > 0

\* C30: the journey built when the destination is popped has as its
\* number_of_transfers, the route changes along its path, both
\* transfers_used[destination] and the transfer count of the popped entry.
C30_TransferCountsAgree ==
    (/\ pc \in {"scan", "done"}
     /\ last_pop # <<>>
     /\ last_pop[2] = destination_stop
     /\ Len(_reconstruct_journey(origin_stop, destination_stop, in_connection,
                                 origin_walk_dist, dest_walk_dist, actual_departure)) > 0) =>
        LET journey == journeys_found[Len(journeys_found)]
        IN /\ journey.number_of_transfers = transfers_used[destination_stop]
           /\ journey.number_of_transfers = last_pop[4]

====
